---- MODULE Spec2Model ----
(***************************************************************************)
(* Model of halo2/storage_proof/src/storage/mod.rs: the EIP-1186 storage    *)
(* proof circuit (EthStorageChip for EthChip, the input assignment layer    *)
(* and EthBlockStorageCircuit::synthesize / instance / num_instance).       *)
(*                                                                         *)
(* The proving context is a record ctx: the advice cells assigned so far    *)
(* (cell id = index into ctx.cells), the equality constraints registered    *)
(* by constrain_equal, the Keccak query registry, the checks deferred to    *)
(* the challenge phase, the log of collaborator calls and the phase tag.    *)
(* Every chip function is an operator from a context to a record            *)
(* [ctx |-> the context afterwards, out |-> the value returned].  A Rust    *)
(* panic (assert_eq!) is ctx.panic # "": every later step is skipped.       *)
(*                                                                         *)
(* Bytes are 0..255 and field elements are integers.  The inputs are drawn  *)
(* so that every 16-byte half and every address stays below 2^24, which     *)
(* keeps all big-endian conversions exact in TLC's integers.                *)
(***************************************************************************)
EXTENDS Integers, Sequences, FiniteSets, TLC

VARIABLES
    pc,         \* position in the driver (synthesize, or a direct chip caller)
    entry,      \* "synthesize" | "chip": which entry point of the file is run
    network,    \* Network::Mainnet | Network::Goerli
    inputs,     \* the raw, untrusted input (EthBlockStorageInput / chip arguments)
    ctx,        \* the proving context (Context + EthChip registries)
    assigned,   \* EthBlockStorageInputAssigned / the chip caller's assigned arguments
    witness,    \* EthBlockAccountStorageTraceWitness (or the chip's witness pair)
    trace,      \* EthBlockAccountStorageTrace (or the chip's trace pair)
    instance_cells  \* the cells bound to the instance column, row i at index i+1

vars == <<pc, entry, network, inputs, ctx, assigned, witness, trace, instance_cells>>

----------------------------------------------------------------------------
(* Bounds of the model *)

\* at most this many (slot, value, proof) triples in an input
MaxSlots == 2
\* at most this many deviations from the honest scenario in one input
MaxFaults == 2

----------------------------------------------------------------------------
(* Byte and field utilities (crate::util, not part of this file) *)

Zeros(n) == [i \in 1..n |-> 0]

ByteAt(b, i) == IF i \in 1..Len(b) THEN b[i] ELSE 0

\* Vec::resize(n, 0): truncate, or pad on the right with zero bytes
Resize(b, n) == [i \in 1..n |-> ByteAt(b, i)]

RECURSIVE BeToUint(_)
\* the unsigned integer of a big-endian byte string
BeToUint(b) ==
    IF Len(b) = 0 THEN 0
    ELSE BeToUint(SubSeq(b, 1, Len(b) - 1)) * 256 + b[Len(b)]

RECURSIVE UintToBe(_, _)
\* the n low-order base-256 digits of x, big-endian
UintToBe(x, n) ==
    IF n = 0 THEN <<>> ELSE UintToBe(x \div 256, n - 1) \o <<x % 256>>

\* encode_h256_to_field: H256 as (hi, lo), each half a big-endian u128
encode_h256_to_field(h) == <<BeToUint(SubSeq(h, 1, 16)), BeToUint(SubSeq(h, 17, 32))>>

\* encode_u256_to_field: the U256 written as 32 big-endian bytes, then as H256
encode_u256_to_field(v) == encode_h256_to_field(v)

\* encode_addr_to_field: the 20 address bytes as one big-endian integer
encode_addr_to_field(a) == BeToUint(a)

\* bytes_be_var_to_fixed on values: the first len bytes right-aligned in n bytes
VarToFixed(bytes, len, n) ==
    [i \in 1..n |-> IF i > n - len THEN ByteAt(bytes, i - (n - len)) ELSE 0]

----------------------------------------------------------------------------
(* Keccak-256 (crate::keccak): an abstract 32-byte digest of the input *)

RECURSIVE Mix(_, _, _)
\* a position-weighted checksum of b[lo..hi]
Mix(b, lo, hi) ==
    IF lo > hi THEN 0
    ELSE IF lo = hi THEN ((lo * lo + 7) * (b[lo] + 1)) % 65521
    ELSE LET mid == (lo + hi) \div 2
         IN  (Mix(b, lo, mid) + Mix(b, mid + 1, hi)) % 65521

Keccak256(b) ==
    LET m == (Mix(b, 1, Len(b)) + 31 * Len(b) + 7) % 65521
        n == (m * 13 + 5) % 65521
    IN  [i \in 1..32 |->
            CASE i = 15 -> m \div 256
              [] i = 16 -> m % 256
              [] i = 31 -> n \div 256
              [] i = 32 -> n % 256
              [] OTHER -> 0]

----------------------------------------------------------------------------
(* RLP (crate::rlp): encoding of short strings and lists, and its decoder *)

RlpStr(b) == IF Len(b) = 1 /\ b[1] < 128 THEN b ELSE <<128 + Len(b)>> \o b

RECURSIVE Concat(_)
Concat(ss) == IF Len(ss) = 0 THEN <<>> ELSE Head(ss) \o Concat(Tail(ss))

RlpList(items) ==
    LET payload == Concat(items)
    IN  IF Len(payload) < 56 THEN <<192 + Len(payload)>> \o payload
        ELSE <<248, Len(payload)>> \o payload

\* where the payload of the list starts, and its length
RlpListPrefix(b) ==
    LET p == ByteAt(b, 1)
    IN  IF p = 248 THEN [start |-> 3, len |-> ByteAt(b, 2), ok |-> TRUE]
        ELSE IF p >= 192 /\ p < 248 THEN [start |-> 2, len |-> p - 192, ok |-> TRUE]
        ELSE [start |-> 2, len |-> 0, ok |-> FALSE]

\* the item that starts at pos: where its payload starts, its length, the next item
RlpItemAt(b, pos) ==
    LET p == ByteAt(b, pos)
    IN  IF p < 128 THEN [start |-> pos, len |-> 1, next |-> pos + 1, ok |-> TRUE]
        ELSE IF p < 184
             THEN [start |-> pos + 1, len |-> p - 128, next |-> pos + 1 + (p - 128),
                   ok |-> TRUE]
        ELSE [start |-> pos + 1, len |-> 0, next |-> pos + 1, ok |-> FALSE]

RECURSIVE RlpItems(_, _, _)
\* the first n items from pos on
RlpItems(b, pos, n) ==
    IF n = 0 THEN <<>>
    ELSE LET it == RlpItemAt(b, pos) IN <<it>> \o RlpItems(b, it.next, n - 1)

----------------------------------------------------------------------------
(* The proving context (halo2_base::Context and the EthChip registries) *)

EmptyCtx ==
    [cells |-> <<>>,              \* value of every assigned cell
     eqs |-> <<>>,                \* constrain_equal(a, b), in registration order
     fixed_len_queries |-> <<>>,  \* keccak.fixed_len_queries
     var_len_queries |-> <<>>,    \* keccak.var_len_queries
     checks |-> <<>>,             \* sub-proofs committed to: [kind, ok]
     log |-> <<>>,                \* collaborator and verifier calls: [op, phase, n]
     panic |-> "",                \* the failed assertion, if any
     phase |-> 0]                 \* 0 = commit (FirstPhase), 1 = challenge-response

Ret(c, o) == [ctx |-> c, out |-> o]

\* F applied to the value of v: v is computed once and F reads the result
Bind(v, F(_)) == CHOOSE y \in {F(x) : x \in {v}} : TRUE

Panic(c, msg) == Ret([c EXCEPT !.panic = msg], <<>>)

Log(c, op, n) == [c EXCEPT !.log = Append(@, [op |-> op, phase |-> c.phase, n |-> n])]

\* ids of the k cells assigned after the n already there
NewCells(n, k) == [i \in 1..k |-> n + i]

\* gate.load_witness for each of vals, in order
LoadAll(c, vals) ==
    Ret([c EXCEPT !.cells = @ \o vals], NewCells(Len(c.cells), Len(vals)))

load_witness(c, v) == Ret([c EXCEPT !.cells = Append(@, v)], Len(c.cells) + 1)

\* the values held by a sequence of cells
Val(c, ids) == [i \in 1..Len(ids) |-> c.cells[ids[i]]]

Min(a, b) == IF a < b THEN a ELSE b

\* for (x, y) in xs.iter().zip(ys.iter()) { ctx.constrain_equal(x, y) }
constrain_equal_zip(c, xs, ys) ==
    Log([c EXCEPT !.eqs = @ \o [i \in 1..Min(Len(xs), Len(ys)) |-> <<xs[i], ys[i]>>]],
        "constrain_equal", Min(Len(xs), Len(ys)))

\* uint_to_bytes_be(ctx, range, x, n): n byte cells recomposing to cell x
uint_to_bytes_be(c, x, n) ==
    Bind(LoadAll(c, UintToBe(c.cells[x], n)), LAMBDA r :
    Ret(Log(r.ctx, "uint_to_bytes_be", n), r.out))

\* bytes_be_to_uint(ctx, gate, bytes, n): one cell holding the integer of n bytes
bytes_be_to_uint(c, bytes, n) ==
    Bind(load_witness(c, BeToUint(SubSeq(Val(c, bytes), 1, n))), LAMBDA r :
    Ret(Log(r.ctx, "bytes_be_to_uint", n), r.out))

\* bytes_be_var_to_fixed(ctx, gate, bytes, len, n): left-pad the first len bytes to n
bytes_be_var_to_fixed(c, bytes, len, n) ==
    Bind(LoadAll(c, VarToFixed(Val(c, bytes), c.cells[len], n)), LAMBDA r :
    Ret(Log(r.ctx, "bytes_be_var_to_fixed", n), r.out))

\* bytes_be_to_u128(ctx, gate, bytes): one u128 cell per 16-byte chunk
bytes_be_to_u128(c, bytes) ==
    Bind(Val(c, bytes), LAMBDA v :
    Bind(LoadAll(c, [j \in 1..(Len(v) \div 16) |->
                        BeToUint(SubSeq(v, 16 * (j - 1) + 1, 16 * j))]), LAMBDA r :
    Ret(Log(r.ctx, "bytes_be_to_u128", Len(r.out)), r.out)))

\* keccak.keccak_fixed_len(ctx, gate, input, None): registers a query, returns its index
keccak_fixed_len(c, input) ==
    Bind(LoadAll(c, Keccak256(Val(c, input))), LAMBDA r :
    Ret(Log([r.ctx EXCEPT !.fixed_len_queries =
                Append(@, [input_assigned |-> input, output_assigned |-> r.out])],
            "keccak_fixed_len", Len(input)),
        Len(r.ctx.fixed_len_queries) + 1))

\* keccak.keccak_var_len(ctx, gate, input, len): hashes the first len bytes
keccak_var_len(c, input, len) ==
    Bind(LoadAll(c, Keccak256(SubSeq(Val(c, input), 1, len))), LAMBDA r :
    Ret(Log([r.ctx EXCEPT !.var_len_queries =
                Append(@, [input_assigned |-> input, length |-> len,
                           output_assigned |-> r.out])],
            "keccak_var_len", Len(input)),
        Len(r.ctx.var_len_queries) + 1))

----------------------------------------------------------------------------
(* The record decoder on cells (crate::rlp), commit pass and challenge pass *)

RECURSIVE SumFirst(_, _)
SumFirst(lens, k) == IF k = 0 THEN 0 ELSE SumFirst(lens, k - 1) + lens[k] + 1

\* the bytes of item it of b, padded on the right with zeros to max bytes
FieldBytes(b, it, max) == [i \in 1..max |-> IF i <= it.len THEN ByteAt(b, it.start + i - 1) ELSE 0]

\* the decomposition of the byte string b into fields of the given maximum lengths
RlpArrayOf(b, max_field_lens) ==
    Bind(RlpListPrefix(b), LAMBDA pre :
    Bind(RlpItems(b, pre.start, Len(max_field_lens)), LAMBDA items :
    [vals |-> Concat([k \in 1..Len(items) |->
                 FieldBytes(b, items[k], max_field_lens[k]) \o <<items[k].len>>]),
     rlp_len |-> pre.start + pre.len - 1,
     ok |-> /\ pre.ok
            /\ \A k \in 1..Len(items) : items[k].ok /\ items[k].len <= max_field_lens[k]
            /\ items[Len(items)].next = pre.start + pre.len
            /\ pre.start + pre.len - 1 <= Len(b)]))

\* decompose_rlp_array_phase0(ctx, rlp_array, max_field_lens, false): per field the
\* decoded byte cells (max length, zero padded) and the cell of the decoded length
decompose_rlp_array_phase0(c, rlp_array, max_field_lens) ==
    Bind(RlpArrayOf(Val(c, rlp_array), max_field_lens), LAMBDA d :
    Ret(Log([c EXCEPT !.cells = @ \o d.vals], "decompose_rlp_array_phase0",
            Len(max_field_lens)),
        [field_witness |-> [k \in 1..Len(max_field_lens) |->
            [field_cells |-> NewCells(Len(c.cells) + SumFirst(max_field_lens, k - 1),
                                      max_field_lens[k]),
             field_len |-> Len(c.cells) + SumFirst(max_field_lens, k)]],
         rlp_array |-> rlp_array,
         rlp_len |-> d.rlp_len,
         ok |-> d.ok]))

\* decompose_rlp_array_phase1: discharges the byte-consistency of the decomposition
decompose_rlp_array_phase1(c, w) ==
    Ret(Log([c EXCEPT !.checks = Append(@, [kind |-> "rlp_array", ok |-> w.ok])],
            "decompose_rlp_array_phase1", Len(w.field_witness)),
        [field_trace |-> [k \in 1..Len(w.field_witness) |->
            [field_trace |-> [values |-> w.field_witness[k].field_cells,
                              len |-> w.field_witness[k].field_len]]]])

\* decompose_rlp_field_phase0(ctx, rlp_field, max_field_len)
decompose_rlp_field_phase0(c, rlp_field, max_field_len) ==
    Bind(Val(c, rlp_field), LAMBDA b :
    Bind(RlpItemAt(b, 1), LAMBDA it :
    Bind(LoadAll(c, FieldBytes(b, it, max_field_len) \o <<it.len>>), LAMBDA r :
    Ret(Log(r.ctx, "decompose_rlp_field_phase0", max_field_len),
        [witness |-> [field_cells |-> SubSeq(r.out, 1, max_field_len),
                      field_len |-> r.out[max_field_len + 1]],
         rlp_field |-> rlp_field,
         ok |-> it.ok /\ it.len <= max_field_len /\ it.next - 1 <= Len(b)]))))

\* decompose_rlp_field_phase1
decompose_rlp_field_phase1(c, w) ==
    Ret(Log([c EXCEPT !.checks = Append(@, [kind |-> "rlp_field", ok |-> w.ok])],
            "decompose_rlp_field_phase1", Len(w.witness.field_cells)),
        [field_trace |-> [values |-> w.witness.field_cells, len |-> w.witness.field_len]])

\* Rust indexes field_witness from 0
Field(w, i) == w.field_witness[i + 1]

----------------------------------------------------------------------------
(* The fixed-key MPT inclusion prover (crate::mpt) *)

\* MPTFixedKeyInput::assign: loads the bundle's bytes; the bundle's node list
\* (inputs' proof: depth nodes, valid iff they chain root -> key -> value) stays
\* opaque.  A path deeper than max_depth is rejected here.
MPTFixedKeyInput_assign(c, pf) ==
    IF pf.proof.depth > pf.max_depth THEN Panic(c, "mpt: depth <= max_depth")
    ELSE
    Bind(LoadAll(c, pf.key_bytes), LAMBDA k :
    Bind(LoadAll(k.ctx, pf.value_bytes), LAMBDA v :
    Bind(LoadAll(v.ctx, pf.root_hash_bytes), LAMBDA r :
    Ret(Log(r.ctx, "MPTFixedKeyInput::assign", pf.max_depth),
        [key_bytes |-> k.out, value_bytes |-> v.out, root_hash_bytes |-> r.out,
         key_byte_len |-> pf.key_byte_len, max_depth |-> pf.max_depth,
         proof |-> pf.proof]))))

\* parse_mpt_inclusion_fixed_key_phase0(ctx, proof, key_byte_len, value_max_byte_len,
\* max_depth): commits to the trie topology
parse_mpt_inclusion_fixed_key_phase0(c, proof, key_byte_len, value_max_byte_len, max_depth) ==
    Ret(Log(c, "parse_mpt_inclusion_fixed_key_phase0", max_depth),
        [proof |-> proof, key_byte_len |-> key_byte_len,
         value_max_byte_len |-> value_max_byte_len, max_depth |-> max_depth])

\* parse_mpt_inclusion_fixed_key_phase1: the inclusion argument itself
parse_mpt_inclusion_fixed_key_phase1(c, w) ==
    Ret(Log([c EXCEPT !.checks = Append(@,
                [kind |-> "mpt",
                 ok |-> w.proof.proof.valid /\ w.proof.proof.depth <= w.max_depth])],
            "parse_mpt_inclusion_fixed_key_phase1", w.max_depth),
        <<>>)

----------------------------------------------------------------------------
(* The block header decoder (crate::block_header) *)

\* maximum header length per network (scaled to the headers of this model)
MAINNET_BLOCK_HEADER_RLP_MAX_BYTES == 56
GOERLI_BLOCK_HEADER_RLP_MAX_BYTES == 58

\* number of header fields, and the maximum byte length of each: the state root
\* (index 3) has 32 bytes, the number (index 8) at most 4
NUM_BLOCK_HEADER_FIELDS == 16
HeaderFieldMaxBytes ==
    [k \in 1..NUM_BLOCK_HEADER_FIELDS |-> IF k = 4 THEN 32 ELSE IF k = 9 THEN 4 ELSE 1]

\* decompose_block_header_phase0(ctx, block_header, network): assigns the header
\* bytes, decomposes the field array and registers the header's own hash query
decompose_block_header_phase0(c, block_header, net) ==
    Bind(LoadAll(Log(c, "decompose_block_header_phase0", Len(block_header)),
                 block_header), LAMBDA h :
    Bind(decompose_rlp_array_phase0(h.ctx, h.out, HeaderFieldMaxBytes), LAMBDA a :
    Bind(keccak_var_len(a.ctx, h.out, a.out.rlp_len), LAMBDA q :
    Ret(q.ctx, [rlp_witness |-> a.out, block_hash_query_idx |-> q.out]))))

\* decompose_block_header_phase1
decompose_block_header_phase1(c, w) ==
    Bind(decompose_rlp_array_phase1(Log(c, "decompose_block_header_phase1", 0),
                                    w.rlp_witness), LAMBDA t :
    Ret(t.ctx, [rlp_trace |-> t.out, block_hash_query_idx |-> w.block_hash_query_idx]))

----------------------------------------------------------------------------
(* EthStorageChip for EthChip: the account-proof and storage-proof verifiers *)

\* acct_check_key without the loop of lines 162-164: the hash is queried, never equated
acct_check_key_unconstrained(c, addr, proof) == keccak_fixed_len(c, addr).ctx

\* lines 159-164: hash the address, equate the hash bytes with the proof key
acct_check_key(c, addr, proof) ==
    Bind(keccak_fixed_len(c, addr), LAMBDA q :
    constrain_equal_zip(q.ctx, q.ctx.fixed_len_queries[q.out].output_assigned,
                        proof.key_bytes))

\* acct_check_root without the loop of lines 167-169
acct_check_root_skipped(c, proof, state_root_bytes) == c

\* lines 166-169: equate the proof's root with the supplied state root
acct_check_root(c, proof, state_root_bytes) ==
    constrain_equal_zip(c, proof.root_hash_bytes, state_root_bytes)

\* parse_account_proof_phase0 without the assertion of line 158
parse_account_proof_phase0_any_addr(c, state_root_bytes, addr, proof) ==
    Bind(Log(c, "parse_account_proof_phase0", Len(addr)), LAMBDA c0 :
    IF proof.key_byte_len # 32 THEN Panic(c0, "assert_eq!(32, proof.key_byte_len)")
    ELSE
    Bind(acct_check_key(c0, addr, proof), LAMBDA c1 :
    Bind(acct_check_root(c1, proof, state_root_bytes), LAMBDA c2 :
    Bind(decompose_rlp_array_phase0(c2, proof.value_bytes, <<33, 13, 33, 33>>),
         LAMBDA array_witness :
    Bind(parse_mpt_inclusion_fixed_key_phase0(array_witness.ctx, proof, 32, 114,
                                              proof.max_depth), LAMBDA mpt_witness :
    Ret(mpt_witness.ctx,
        [array_witness |-> array_witness.out, mpt_witness |-> mpt_witness.out]))))))

parse_account_proof_phase0(c, state_root_bytes, addr, proof) ==
    Bind(Log(c, "parse_account_proof_phase0", Len(addr)), LAMBDA c0 :
    IF proof.key_byte_len # 32 THEN Panic(c0, "assert_eq!(32, proof.key_byte_len)")
    ELSE IF Len(addr) # 20 THEN Panic(c0, "assert_eq!(addr.len(), 20)")
    ELSE
    Bind(acct_check_key(c0, addr, proof), LAMBDA c1 :
    Bind(acct_check_root(c1, proof, state_root_bytes), LAMBDA c2 :
    Bind(decompose_rlp_array_phase0(c2, proof.value_bytes, <<33, 13, 33, 33>>),
         LAMBDA array_witness :
    Bind(parse_mpt_inclusion_fixed_key_phase0(array_witness.ctx, proof, 32, 114,
                                              proof.max_depth), LAMBDA mpt_witness :
    Ret(mpt_witness.ctx,
        [array_witness |-> array_witness.out, mpt_witness |-> mpt_witness.out]))))))

\* parse_account_proof_phase1 naming the first two field traces balance, nonce
parse_account_proof_phase1_balance_first(c, w) ==
    Bind(parse_mpt_inclusion_fixed_key_phase1(Log(c, "parse_account_proof_phase1", 0),
                                              w.mpt_witness), LAMBDA m :
    Bind(decompose_rlp_array_phase1(m.ctx, w.array_witness), LAMBDA a :
    IF Len(a.out.field_trace) # 4 THEN Panic(a.ctx, "try_into().unwrap()")
    ELSE Ret(a.ctx, [nonce_trace |-> a.out.field_trace[2].field_trace,
                     balance_trace |-> a.out.field_trace[1].field_trace,
                     storage_root_trace |-> a.out.field_trace[3].field_trace,
                     code_hash_trace |-> a.out.field_trace[4].field_trace])))

parse_account_proof_phase1(c, w) ==
    Bind(parse_mpt_inclusion_fixed_key_phase1(Log(c, "parse_account_proof_phase1", 0),
                                              w.mpt_witness), LAMBDA m :
    Bind(decompose_rlp_array_phase1(m.ctx, w.array_witness), LAMBDA a :
    IF Len(a.out.field_trace) # 4 THEN Panic(a.ctx, "try_into().unwrap()")
    ELSE Ret(a.ctx, [nonce_trace |-> a.out.field_trace[1].field_trace,
                     balance_trace |-> a.out.field_trace[2].field_trace,
                     storage_root_trace |-> a.out.field_trace[3].field_trace,
                     code_hash_trace |-> a.out.field_trace[4].field_trace])))

\* storage_check_key equating the key with the output of the registry's first query
storage_check_key_first_query(c, slot, proof) ==
    Bind(keccak_fixed_len(c, slot), LAMBDA q :
    constrain_equal_zip(q.ctx, q.ctx.fixed_len_queries[1].output_assigned,
                        proof.key_bytes))

\* lines 214-220: hash the slot, equate the hash bytes with the proof key
storage_check_key(c, slot, proof) ==
    Bind(keccak_fixed_len(c, slot), LAMBDA q :
    constrain_equal_zip(q.ctx, q.ctx.fixed_len_queries[q.out].output_assigned,
                        proof.key_bytes))

\* storage_check_root without the loop of lines 222-224
storage_check_root_skipped(c, proof, storage_root_bytes) == c

\* lines 221-224: equate the proof's root with the supplied storage root
storage_check_root(c, proof, storage_root_bytes) ==
    constrain_equal_zip(c, proof.root_hash_bytes, storage_root_bytes)

\* parse_storage_proof_phase0 with the assertion of line 212 moved after the key check
parse_storage_proof_phase0_late_assert(c, storage_root_bytes, slot, proof) ==
    Bind(Log(c, "parse_storage_proof_phase0", Len(slot)), LAMBDA c0 :
    Bind(storage_check_key(c0, slot, proof), LAMBDA c1 :
    IF proof.key_byte_len # 32 THEN Panic(c1, "assert_eq!(32, proof.key_byte_len)")
    ELSE
    Bind(storage_check_root(c1, proof, storage_root_bytes), LAMBDA c2 :
    Bind(decompose_rlp_field_phase0(c2, proof.value_bytes, 32), LAMBDA value_witness :
    Bind(parse_mpt_inclusion_fixed_key_phase0(value_witness.ctx, proof, 32, 33,
                                              proof.max_depth), LAMBDA mpt_witness :
    Ret(mpt_witness.ctx,
        [value_witness |-> value_witness.out, mpt_witness |-> mpt_witness.out]))))))

\* parse_storage_proof_phase0 handing the trie prover a depth of its own choosing
parse_storage_proof_phase0_fixed_depth(c, storage_root_bytes, slot, proof) ==
    Bind(Log(c, "parse_storage_proof_phase0", Len(slot)), LAMBDA c0 :
    IF proof.key_byte_len # 32 THEN Panic(c0, "assert_eq!(32, proof.key_byte_len)")
    ELSE
    Bind(storage_check_key(c0, slot, proof), LAMBDA c1 :
    Bind(storage_check_root(c1, proof, storage_root_bytes), LAMBDA c2 :
    Bind(decompose_rlp_field_phase0(c2, proof.value_bytes, 32), LAMBDA value_witness :
    Bind(parse_mpt_inclusion_fixed_key_phase0(value_witness.ctx, proof, 32, 33, 3),
         LAMBDA mpt_witness :
    Ret(mpt_witness.ctx,
        [value_witness |-> value_witness.out, mpt_witness |-> mpt_witness.out]))))))

parse_storage_proof_phase0(c, storage_root_bytes, slot, proof) ==
    Bind(Log(c, "parse_storage_proof_phase0", Len(slot)), LAMBDA c0 :
    IF proof.key_byte_len # 32 THEN Panic(c0, "assert_eq!(32, proof.key_byte_len)")
    ELSE
    Bind(storage_check_key(c0, slot, proof), LAMBDA c1 :
    Bind(storage_check_root(c1, proof, storage_root_bytes), LAMBDA c2 :
    Bind(decompose_rlp_field_phase0(c2, proof.value_bytes, 32), LAMBDA value_witness :
    Bind(parse_mpt_inclusion_fixed_key_phase0(value_witness.ctx, proof, 32, 33,
                                              proof.max_depth), LAMBDA mpt_witness :
    Ret(mpt_witness.ctx,
        [value_witness |-> value_witness.out, mpt_witness |-> mpt_witness.out]))))))

parse_storage_proof_phase1(c, w) ==
    Bind(parse_mpt_inclusion_fixed_key_phase1(Log(c, "parse_storage_proof_phase1", 0),
                                              w.mpt_witness), LAMBDA m :
    Bind(decompose_rlp_field_phase1(m.ctx, w.value_witness), LAMBDA value_trace :
    IF Len(value_trace.out.field_trace.values) # 32
    THEN Panic(value_trace.ctx, "debug_assert_eq!(value_bytes.len(), 32)")
    ELSE Ret(value_trace.ctx, [value_bytes |-> value_trace.out.field_trace.values])))

RECURSIVE storage_pfs_phase0(_, _, _)
\* lines 260-265: storage_pfs.into_iter().map(parse_storage_proof_phase0).collect()
storage_pfs_phase0(c, storage_root, storage_pfs) ==
    IF Len(storage_pfs) = 0 THEN Ret(c, <<>>)
    ELSE
    Bind(parse_storage_proof_phase0(c, storage_root, Head(storage_pfs)[1],
                                    Head(storage_pfs)[2]), LAMBDA h :
    IF h.ctx.panic # "" THEN h
    ELSE
    Bind(storage_pfs_phase0(h.ctx, storage_root, Tail(storage_pfs)), LAMBDA t :
    IF t.ctx.panic # "" THEN t ELSE Ret(t.ctx, <<h.out>> \o t.out)))

parse_eip1186_proofs_phase0(c, state_root, addr, acct_pf, storage_pfs) ==
    Bind(parse_account_proof_phase0(c, state_root, addr, acct_pf), LAMBDA acct_trace :
    IF acct_trace.ctx.panic # "" THEN acct_trace
    ELSE
    Bind(storage_pfs_phase0(acct_trace.ctx,
                            Field(acct_trace.out.array_witness, 2).field_cells,
                            storage_pfs), LAMBDA storage_trace :
    IF storage_trace.ctx.panic # "" THEN storage_trace
    ELSE Ret(storage_trace.ctx, <<acct_trace.out, storage_trace.out>>)))

RECURSIVE storage_witness_phase1_last_first(_, _)
\* storage_witness_phase1 collecting the traces in the order last to first
storage_witness_phase1_last_first(c, storage_witness) ==
    IF Len(storage_witness) = 0 THEN Ret(c, <<>>)
    ELSE
    Bind(parse_storage_proof_phase1(c, Head(storage_witness)), LAMBDA h :
    IF h.ctx.panic # "" THEN h
    ELSE
    Bind(storage_witness_phase1_last_first(h.ctx, Tail(storage_witness)), LAMBDA t :
    IF t.ctx.panic # "" THEN t ELSE Ret(t.ctx, t.out \o <<h.out>>)))

RECURSIVE storage_witness_phase1(_, _)
\* lines 279-282: storage_witness.into_iter().map(parse_storage_proof_phase1).collect()
storage_witness_phase1(c, storage_witness) ==
    IF Len(storage_witness) = 0 THEN Ret(c, <<>>)
    ELSE
    Bind(parse_storage_proof_phase1(c, Head(storage_witness)), LAMBDA h :
    IF h.ctx.panic # "" THEN h
    ELSE
    Bind(storage_witness_phase1(h.ctx, Tail(storage_witness)), LAMBDA t :
    IF t.ctx.panic # "" THEN t ELSE Ret(t.ctx, <<h.out>> \o t.out)))

\* parse_eip1186_proofs_phase1 returning at once when there is no storage witness
parse_eip1186_proofs_phase1_none_if_empty(c, w) ==
    IF Len(w[2]) = 0 THEN Ret(c, <<<<>>, <<>>>>)
    ELSE
    Bind(parse_account_proof_phase1(c, w[1]), LAMBDA acct_trace :
    IF acct_trace.ctx.panic # "" THEN acct_trace
    ELSE
    Bind(storage_witness_phase1(acct_trace.ctx, w[2]), LAMBDA storage_trace :
    IF storage_trace.ctx.panic # "" THEN storage_trace
    ELSE Ret(storage_trace.ctx, <<acct_trace.out, storage_trace.out>>)))

parse_eip1186_proofs_phase1(c, w) ==
    Bind(parse_account_proof_phase1(c, w[1]), LAMBDA acct_trace :
    IF acct_trace.ctx.panic # "" THEN acct_trace
    ELSE
    Bind(storage_witness_phase1(acct_trace.ctx, w[2]), LAMBDA storage_trace :
    IF storage_trace.ctx.panic # "" THEN storage_trace
    ELSE Ret(storage_trace.ctx, <<acct_trace.out, storage_trace.out>>)))

----------------------------------------------------------------------------
(* The block-to-storage chainer *)

\* lines 299-300 and 339-340: h256.iter().map(|u128| uint_to_bytes_be(.., 16)).concat()
h256_to_bytes(c, h256) ==
    Bind(uint_to_bytes_be(c, h256[1], 16), LAMBDA hi :
    Bind(uint_to_bytes_be(hi.ctx, h256[2], 16), LAMBDA lo :
    Ret(lo.ctx, hi.out \o lo.out)))

\* resize_block_header using the Mainnet maximum for every network
resize_block_header_mainnet_only(block_header, net) ==
    Resize(block_header, MAINNET_BLOCK_HEADER_RLP_MAX_BYTES)

\* lines 301-306: the header resized to the network's maximum length
resize_block_header(block_header, net) ==
    Resize(block_header,
           IF net = "Goerli" THEN GOERLI_BLOCK_HEADER_RLP_MAX_BYTES
           ELSE MAINNET_BLOCK_HEADER_RLP_MAX_BYTES)

\* check_block_hash with the two halves of the declared hash in the order lo, hi
check_block_hash_lo_first(c, block_hash_bytes0, block_witness) ==
    constrain_equal_zip(c, SubSeq(block_hash_bytes0, 17, 32) \o SubSeq(block_hash_bytes0, 1, 16),
        c.var_len_queries[block_witness.block_hash_query_idx].output_assigned)

\* lines 310-314: the declared hash bytes equated with the header's hash query output
check_block_hash(c, block_hash_bytes0, block_witness) ==
    constrain_equal_zip(c, block_hash_bytes0,
        c.var_len_queries[block_witness.block_hash_query_idx].output_assigned)

\* compute_block_number padding header field 8 to 3 bytes in place of 4
compute_block_number_3_bytes(c, block_witness) ==
    Bind(bytes_be_var_to_fixed(c, Field(block_witness.rlp_witness, 8).field_cells,
                               Field(block_witness.rlp_witness, 8).field_len, 3),
         LAMBDA block_number :
    bytes_be_to_uint(block_number.ctx, block_number.out, 3))

\* compute_block_number reading header field 7 in place of field 8
compute_block_number_field7(c, block_witness) ==
    Bind(bytes_be_var_to_fixed(c, Field(block_witness.rlp_witness, 7).field_cells,
                               Field(block_witness.rlp_witness, 7).field_len, 4),
         LAMBDA block_number :
    bytes_be_to_uint(block_number.ctx, block_number.out, 4))

\* lines 316-321: the block number from the big-endian bytes of header field 8
compute_block_number(c, block_witness) ==
    Bind(bytes_be_var_to_fixed(c, Field(block_witness.rlp_witness, 8).field_cells,
                               Field(block_witness.rlp_witness, 8).field_len, 4),
         LAMBDA block_number :
    bytes_be_to_uint(block_number.ctx, block_number.out, 4))

\* slot_value_hilo returning the halves in the order (lo, hi)
slot_value_hilo_lo_hi(c, w) ==
    Bind(bytes_be_var_to_fixed(c, w.value_witness.witness.field_cells,
                               w.value_witness.witness.field_len, 32),
         LAMBDA value_bytes :
    Bind(bytes_be_to_u128(value_bytes.ctx, value_bytes.out), LAMBDA r :
    Ret(r.ctx, <<r.out[2], r.out[1]>>)))

\* lines 343-349: the decoded proof value, left-padded to 32 bytes, as (hi, lo)
slot_value_hilo(c, w) ==
    Bind(bytes_be_var_to_fixed(c, w.value_witness.witness.field_cells,
                               w.value_witness.witness.field_len, 32),
         LAMBDA value_bytes :
    bytes_be_to_u128(value_bytes.ctx, value_bytes.out))

\* from_block_slot_phase0 handing the verifier the bundle's own root as storage root
from_block_slot_phase0_own_root(c, storage_root, slot, storage_pf) ==
    Bind(h256_to_bytes(c, slot), LAMBDA slot_bytes :
    Bind(parse_storage_proof_phase0(slot_bytes.ctx, storage_pf.root_hash_bytes,
                                    slot_bytes.out, storage_pf), LAMBDA w :
    IF w.ctx.panic # "" THEN w
    ELSE
    Bind(slot_value_hilo(w.ctx, w.out), LAMBDA value :
    Ret(value.ctx, [witness |-> w.out, slot_value |-> <<slot, value.out>>]))))

\* lines 338-353: the closure run for one (slot, storage_pf)
from_block_slot_phase0(c, storage_root, slot, storage_pf) ==
    Bind(h256_to_bytes(c, slot), LAMBDA slot_bytes :
    Bind(parse_storage_proof_phase0(slot_bytes.ctx, storage_root, slot_bytes.out,
                                    storage_pf), LAMBDA w :
    IF w.ctx.panic # "" THEN w
    ELSE
    Bind(slot_value_hilo(w.ctx, w.out), LAMBDA value :
    Ret(value.ctx, [witness |-> w.out, slot_value |-> <<slot, value.out>>]))))

RECURSIVE from_block_slots_phase0_first_proof(_, _, _)
\* from_block_slots_phase0 verifying every slot against the first slot's bundle
from_block_slots_phase0_first_proof(c, storage_root, storage_pfs) ==
    IF Len(storage_pfs) = 0 THEN Ret(c, [storage_witness |-> <<>>, slots_values |-> <<>>])
    ELSE
    Bind(from_block_slot_phase0(c, storage_root, Head(storage_pfs)[1],
                                Head(storage_pfs)[2]), LAMBDA h :
    IF h.ctx.panic # "" THEN h
    ELSE
    Bind(from_block_slots_phase0_first_proof(h.ctx, storage_root,
            [k \in 1..(Len(storage_pfs) - 1) |->
                <<storage_pfs[k + 1][1], Head(storage_pfs)[2]>>]), LAMBDA t :
    IF t.ctx.panic # "" THEN t
    ELSE Ret(t.ctx, [storage_witness |-> <<h.out.witness>> \o t.out.storage_witness,
                     slots_values |-> <<h.out.slot_value>> \o t.out.slots_values])))

RECURSIVE from_block_slots_phase0(_, _, _)
\* lines 333-354: the map over input.storage.storage_pfs, in input order
from_block_slots_phase0(c, storage_root, storage_pfs) ==
    IF Len(storage_pfs) = 0 THEN Ret(c, [storage_witness |-> <<>>, slots_values |-> <<>>])
    ELSE
    Bind(from_block_slot_phase0(c, storage_root, Head(storage_pfs)[1],
                                Head(storage_pfs)[2]), LAMBDA h :
    IF h.ctx.panic # "" THEN h
    ELSE
    Bind(from_block_slots_phase0(h.ctx, storage_root, Tail(storage_pfs)), LAMBDA t :
    IF t.ctx.panic # "" THEN t
    ELSE Ret(t.ctx, [storage_witness |-> <<h.out.witness>> \o t.out.storage_witness,
                     slots_values |-> <<h.out.slot_value>> \o t.out.slots_values])))

\* parse_eip1186_proofs_from_block_phase0 deriving the block number before the
\* header-hash equality
parse_eip1186_proofs_from_block_phase0_number_first(c, input, net) ==
    Bind(h256_to_bytes(Log(c, "parse_eip1186_proofs_from_block_phase0",
                           Len(input.storage.storage_pfs)),
                       input.block_hash), LAMBDA block_hash_bytes0 :
    Bind(decompose_block_header_phase0(block_hash_bytes0.ctx,
                                       resize_block_header(input.block_header, net), net),
         LAMBDA block_witness :
    Bind(compute_block_number(block_witness.ctx, block_witness.out), LAMBDA block_number :
    Bind(check_block_hash(block_number.ctx, block_hash_bytes0.out, block_witness.out),
         LAMBDA c1 :
    Bind(uint_to_bytes_be(c1, input.storage.address, 20), LAMBDA addr_bytes :
    Bind(parse_account_proof_phase0(addr_bytes.ctx,
                                    Field(block_witness.out.rlp_witness, 3).field_cells,
                                    addr_bytes.out, input.storage.acct_pf),
         LAMBDA acct_witness :
    IF acct_witness.ctx.panic # "" THEN acct_witness
    ELSE
    Bind(from_block_slots_phase0(acct_witness.ctx,
                                 Field(acct_witness.out.array_witness, 2).field_cells,
                                 input.storage.storage_pfs), LAMBDA slots :
    IF slots.ctx.panic # "" THEN slots
    ELSE Ret(slots.ctx,
             [block_witness |-> block_witness.out,
              acct_witness |-> acct_witness.out,
              storage_witness |-> slots.out.storage_witness,
              digest |-> [block_hash |-> input.block_hash,
                          block_number |-> block_number.out,
                          address |-> input.storage.address,
                          slots_values |-> slots.out.slots_values]]))))))))

parse_eip1186_proofs_from_block_phase0(c, input, net) ==
    Bind(h256_to_bytes(Log(c, "parse_eip1186_proofs_from_block_phase0",
                           Len(input.storage.storage_pfs)),
                       input.block_hash), LAMBDA block_hash_bytes0 :
    Bind(decompose_block_header_phase0(block_hash_bytes0.ctx,
                                       resize_block_header(input.block_header, net), net),
         LAMBDA block_witness :
    Bind(check_block_hash(block_witness.ctx, block_hash_bytes0.out, block_witness.out),
         LAMBDA c1 :
    Bind(compute_block_number(c1, block_witness.out), LAMBDA block_number :
    Bind(uint_to_bytes_be(block_number.ctx, input.storage.address, 20), LAMBDA addr_bytes :
    Bind(parse_account_proof_phase0(addr_bytes.ctx,
                                    Field(block_witness.out.rlp_witness, 3).field_cells,
                                    addr_bytes.out, input.storage.acct_pf),
         LAMBDA acct_witness :
    IF acct_witness.ctx.panic # "" THEN acct_witness
    ELSE
    Bind(from_block_slots_phase0(acct_witness.ctx,
                                 Field(acct_witness.out.array_witness, 2).field_cells,
                                 input.storage.storage_pfs), LAMBDA slots :
    IF slots.ctx.panic # "" THEN slots
    ELSE Ret(slots.ctx,
             [block_witness |-> block_witness.out,
              acct_witness |-> acct_witness.out,
              storage_witness |-> slots.out.storage_witness,
              digest |-> [block_hash |-> input.block_hash,
                          block_number |-> block_number.out,
                          address |-> input.storage.address,
                          slots_values |-> slots.out.slots_values]]))))))))

\* parse_eip1186_proofs_from_block_phase1 rebuilding the digest with fresh cells for
\* the block hash
parse_eip1186_proofs_from_block_phase1_new_digest(c, w) ==
    Bind(decompose_block_header_phase1(
             Log(c, "parse_eip1186_proofs_from_block_phase1", Len(w.storage_witness)),
             w.block_witness), LAMBDA block_trace :
    Bind(parse_eip1186_proofs_phase1(block_trace.ctx,
                                     <<w.acct_witness, w.storage_witness>>), LAMBDA t :
    IF t.ctx.panic # "" THEN t
    ELSE
    Bind(LoadAll(t.ctx, Val(t.ctx, w.digest.block_hash)), LAMBDA block_hash :
    Ret(block_hash.ctx, [block_trace |-> block_trace.out,
                         acct_trace |-> t.out[1],
                         storage_trace |-> t.out[2],
                         digest |-> [w.digest EXCEPT !.block_hash = block_hash.out]]))))

parse_eip1186_proofs_from_block_phase1(c, w) ==
    Bind(decompose_block_header_phase1(
             Log(c, "parse_eip1186_proofs_from_block_phase1", Len(w.storage_witness)),
             w.block_witness), LAMBDA block_trace :
    Bind(parse_eip1186_proofs_phase1(block_trace.ctx,
                                     <<w.acct_witness, w.storage_witness>>), LAMBDA t :
    IF t.ctx.panic # "" THEN t
    ELSE Ret(t.ctx, [block_trace |-> block_trace.out,
                     acct_trace |-> t.out[1],
                     storage_trace |-> t.out[2],
                     digest |-> w.digest])))

----------------------------------------------------------------------------
(* The input-assignment layer *)

\* assign_storage_pf loading the claimed value as well, which line 411 discards
assign_storage_pf_loads_value(c, triple) ==
    Bind(LoadAll(c, encode_h256_to_field(triple[1])), LAMBDA slot :
    Bind(LoadAll(slot.ctx, encode_u256_to_field(triple[2])), LAMBDA value :
    Bind(MPTFixedKeyInput_assign(value.ctx, triple[3]), LAMBDA pf :
    IF pf.ctx.panic # "" THEN pf ELSE Ret(pf.ctx, <<slot.out, pf.out>>))))

\* lines 411-416: the closure run for one (slot, value, pf); the value is not loaded
assign_storage_pf(c, triple) ==
    Bind(LoadAll(c, encode_h256_to_field(triple[1])), LAMBDA slot :
    Bind(MPTFixedKeyInput_assign(slot.ctx, triple[3]), LAMBDA pf :
    IF pf.ctx.panic # "" THEN pf ELSE Ret(pf.ctx, <<slot.out, pf.out>>)))

RECURSIVE assign_storage_pfs(_, _)
\* lines 408-417: the map over self.storage_pfs
assign_storage_pfs(c, storage_pfs) ==
    IF Len(storage_pfs) = 0 THEN Ret(c, <<>>)
    ELSE
    Bind(assign_storage_pf(c, Head(storage_pfs)), LAMBDA h :
    IF h.ctx.panic # "" THEN h
    ELSE
    Bind(assign_storage_pfs(h.ctx, Tail(storage_pfs)), LAMBDA t :
    IF t.ctx.panic # "" THEN t ELSE Ret(t.ctx, <<h.out>> \o t.out)))

\* EthStorageInput_assign loading the address a second time and tying the two cells
EthStorageInput_assign_address_twice(c, self) ==
    Bind(load_witness(c, encode_addr_to_field(self.addr)), LAMBDA first :
    Bind(load_witness(first.ctx, encode_addr_to_field(self.addr)), LAMBDA address :
    Bind(MPTFixedKeyInput_assign(
             constrain_equal_zip(address.ctx, <<first.out>>, <<address.out>>),
             self.acct_pf), LAMBDA acct_pf :
    IF acct_pf.ctx.panic # "" THEN acct_pf
    ELSE
    Bind(assign_storage_pfs(acct_pf.ctx, self.storage_pfs), LAMBDA storage_pfs :
    IF storage_pfs.ctx.panic # "" THEN storage_pfs
    ELSE Ret(storage_pfs.ctx, [address |-> address.out, acct_pf |-> acct_pf.out,
                               storage_pfs |-> storage_pfs.out])))))

EthStorageInput_assign(c, self) ==
    Bind(load_witness(c, encode_addr_to_field(self.addr)), LAMBDA address :
    Bind(MPTFixedKeyInput_assign(address.ctx, self.acct_pf), LAMBDA acct_pf :
    IF acct_pf.ctx.panic # "" THEN acct_pf
    ELSE
    Bind(assign_storage_pfs(acct_pf.ctx, self.storage_pfs), LAMBDA storage_pfs :
    IF storage_pfs.ctx.panic # "" THEN storage_pfs
    ELSE Ret(storage_pfs.ctx, [address |-> address.out, acct_pf |-> acct_pf.out,
                               storage_pfs |-> storage_pfs.out]))))

\* EthBlockStorageInput_assign loading the halves of the block hash as (lo, hi)
EthBlockStorageInput_assign_lo_hi(c, self) ==
    Bind(LoadAll(c, <<encode_h256_to_field(self.block_hash)[2],
                      encode_h256_to_field(self.block_hash)[1]>>), LAMBDA block_hash :
    Bind(EthStorageInput_assign(block_hash.ctx, self.storage), LAMBDA storage :
    IF storage.ctx.panic # "" THEN storage
    ELSE Ret(storage.ctx, [block_hash |-> block_hash.out,
                           block_header |-> self.block_header,
                           storage |-> storage.out])))

EthBlockStorageInput_assign(c, self) ==
    Bind(LoadAll(c, encode_h256_to_field(self.block_hash)), LAMBDA block_hash :
    Bind(EthStorageInput_assign(block_hash.ctx, self.storage), LAMBDA storage :
    IF storage.ctx.panic # "" THEN storage
    ELSE Ret(storage.ctx, [block_hash |-> block_hash.out,
                           block_header |-> self.block_header,
                           storage |-> storage.out])))

----------------------------------------------------------------------------
(* EthBlockStorageCircuit: the public instance *)

RECURSIVE instance_slots(_)
\* lines 495-498
instance_slots(storage_pfs) ==
    IF Len(storage_pfs) = 0 THEN <<>>
    ELSE encode_h256_to_field(Head(storage_pfs)[1])
         \o encode_u256_to_field(Head(storage_pfs)[2])
         \o instance_slots(Tail(storage_pfs))

\* blockHash, blockNumber, address, (slot, value)s with H256 encoded as hi-lo
instance(self) ==
    encode_h256_to_field(self.block_hash)
    \o <<self.block_number>>
    \o <<encode_addr_to_field(self.storage.addr)>>
    \o instance_slots(self.storage.storage_pfs)

num_instance(self) == <<4 + 4 * Len(self.storage.storage_pfs)>>

RECURSIVE digest_slot_cells(_)
\* lines 863-865: slots_values.iter().flat_map(|(slot, value)| slot.chain(value))
digest_slot_cells(slots_values) ==
    IF Len(slots_values) = 0 THEN <<>>
    ELSE Head(slots_values)[1] \o Head(slots_values)[2]
         \o digest_slot_cells(Tail(slots_values))

\* digest_cells with the address bound before the block number
digest_cells_address_first(digest) ==
    digest.block_hash
    \o <<digest.address, digest.block_number>>
    \o digest_slot_cells(digest.slots_values)

\* lines 858-868: the digest's cells in the order they are bound to the instance
digest_cells(digest) ==
    digest.block_hash
    \o <<digest.block_number, digest.address>>
    \o digest_slot_cells(digest.slots_values)

----------------------------------------------------------------------------
(* The inputs: the scenario of one account and its slots, and deviations from it *)

AddressA == Zeros(17) \o <<180, 126, 60>>
StateRootR == Keccak256(<<82>>)
StorageRootS == Keccak256(<<83>>)
CodeHashC == Keccak256(<<67>>)
OtherHash == Keccak256(<<0, 0>>)

\* RLP([nonce = 1, balance, storageRoot, codeHash])
AccountRecord ==
    RlpList(<<RlpStr(<<1>>), RlpStr(<<16, 211, 96>>), RlpStr(StorageRootS), RlpStr(CodeHashC)>>)

SlotK(i) == [j \in 1..32 |-> IF j = 16 THEN i ELSE IF j = 32 THEN 16 + i ELSE 0]

\* the value stored at slot i, without leading zeros: 3 bytes (odd i) or 18 bytes (even i)
StoredValue(i) ==
    IF i % 2 = 1 THEN <<224, 140, 50 + i>> ELSE <<5, i>> \o Zeros(13) \o <<7, 8, 9>>

\* a U256 as its 32 big-endian bytes
U256Of(v) == VarToFixed(v, Len(v), 32)

BlockNumberBytes == {<<249, 147, 254>>, <<1, 2, 3, 4>>}

\* the RLP of a header with the given state root (field 3) and number (field 8)
HeaderRlp(state_root, number_bytes) ==
    RlpList([k \in 1..NUM_BLOCK_HEADER_FIELDS |->
                IF k = 4 THEN RlpStr(state_root)
                ELSE IF k = 9 THEN RlpStr(number_bytes)
                ELSE RlpStr(<<k>>)])

GlobalFaults ==
    {<<"hash_forged", 0>>, <<"number_wrong", 0>>, <<"header_long", 0>>,
     <<"acct_key", 0>>, <<"acct_root", 0>>, <<"acct_path", 0>>,
     <<"acct_key_len", 0>>, <<"acct_depth", 0>>}

SlotFaults(n) ==
    {"slot_key", "slot_root", "slot_path", "slot_key_len", "slot_depth", "value_tampered"}
        \X (1..n)

ChipFaults == {<<"addr_short", 0>>, <<"addr_long", 0>>, <<"root_short", 0>>}

RECURSIVE SubsetsUpTo(_, _)
SubsetsUpTo(S, k) ==
    IF k = 0 THEN {{}}
    ELSE LET P == SubsetsUpTo(S, k - 1) IN P \cup {p \cup {x} : p \in P, x \in S}

\* MPTFixedKeyInput: key, value, root, the node list (opaque), the declared bounds;
\* each bundle declares its own max_depth, and an honest path is exactly that deep
Bundle(key, value, root, F, pre, i) ==
    [key_bytes |-> IF <<pre \o "_key", i>> \in F THEN OtherHash ELSE key,
     value_bytes |-> value,
     root_hash_bytes |-> IF <<pre \o "_root", i>> \in F THEN OtherHash ELSE root,
     key_byte_len |-> IF <<pre \o "_key_len", i>> \in F THEN 31 ELSE 32,
     max_depth |-> 3 + i,
     proof |-> [depth |-> IF <<pre \o "_depth", i>> \in F THEN 4 + i ELSE 3 + i,
                valid |-> <<pre \o "_path", i>> \notin F]]

AcctBundle(F) == Bundle(Keccak256(AddressA), AccountRecord, StateRootR, F, "acct", 0)

SlotBundle(F, i) == Bundle(Keccak256(SlotK(i)), RlpStr(StoredValue(i)), StorageRootS, F, "slot", i)

MaxHeaderLen(net) ==
    IF net = "Goerli" THEN GOERLI_BLOCK_HEADER_RLP_MAX_BYTES
    ELSE MAINNET_BLOCK_HEADER_RLP_MAX_BYTES

\* EthBlockStorageInput for n slots, with the deviations F
BlockStorageInput(n, num, net, F) ==
    LET header == HeaderRlp(StateRootR, num)
    IN  [block_number |-> IF <<"number_wrong", 0>> \in F THEN BeToUint(num) + 1
                          ELSE BeToUint(num),
         block_hash |-> IF <<"hash_forged", 0>> \in F THEN OtherHash ELSE Keccak256(header),
         block_header |-> IF <<"header_long", 0>> \in F
                          THEN header \o Zeros(MaxHeaderLen(net) + 1 - Len(header))
                          ELSE header,
         storage |->
            [addr |-> AddressA,
             acct_pf |-> AcctBundle(F),
             storage_pfs |-> [i \in 1..n |->
                <<SlotK(i),
                  IF <<"value_tampered", i>> \in F THEN U256Of(<<66, i>>)
                  ELSE U256Of(StoredValue(i)),
                  SlotBundle(F, i)>>]]]

\* the arguments of a direct call of parse_eip1186_proofs_phase0
ChipInput(n, F) ==
    [state_root |-> IF <<"root_short", 0>> \in F THEN SubSeq(StateRootR, 1, 31)
                    ELSE StateRootR,
     addr |-> IF <<"addr_short", 0>> \in F THEN Tail(AddressA)
              ELSE IF <<"addr_long", 0>> \in F THEN <<0>> \o AddressA
              ELSE AddressA,
     acct_pf |-> AcctBundle(F),
     storage_pfs |-> [i \in 1..n |-> <<SlotK(i), SlotBundle(F, i)>>]]

----------------------------------------------------------------------------
(* The drivers *)

Init ==
    /\ pc = "start"
    /\ ctx = EmptyCtx
    /\ assigned = <<>>
    /\ witness = <<>>
    /\ trace = <<>>
    /\ instance_cells = <<>>
    /\ \E n \in 0..MaxSlots :
          \/ /\ entry = "synthesize"
             /\ network \in {"Mainnet", "Goerli"}
             /\ \E num \in BlockNumberBytes,
                   F \in SubsetsUpTo(GlobalFaults \cup SlotFaults(n), MaxFaults) :
                    inputs = BlockStorageInput(n, num, network, F)
          \/ /\ entry = "chip"
             /\ network = "Mainnet"
             /\ \E F \in SubsetsUpTo(ChipFaults \cup GlobalFaults \cup SlotFaults(n), MaxFaults) :
                    inputs = ChipInput(n, F)

\* synthesize, lines 827-830: the first pass of the region closure returns at once
FirstPass ==
    /\ entry = "synthesize" /\ pc = "start"
    /\ pc' = "second_pass"
    /\ UNCHANGED <<entry, network, inputs, ctx, assigned, witness, trace, instance_cells>>

\* synthesize, line 843: self.inputs.assign(ctx, chip.gate())
Assign ==
    /\ entry = "synthesize" /\ pc = "second_pass"
    /\ \E r \in {EthBlockStorageInput_assign(ctx, inputs)} :
           /\ ctx' = r.ctx
           /\ assigned' = r.out
           /\ pc' = IF r.ctx.panic # "" THEN "aborted" ELSE "assigned"
    /\ UNCHANGED <<entry, network, inputs, witness, trace, instance_cells>>

\* synthesize, lines 844-845: chip.parse_eip1186_proofs_from_block_phase0
CommitPhase ==
    /\ entry = "synthesize" /\ pc = "assigned"
    /\ \E r \in {parse_eip1186_proofs_from_block_phase0(ctx, assigned, network)} :
           /\ ctx' = r.ctx
           /\ witness' = r.out
           /\ pc' = IF r.ctx.panic # "" THEN "aborted" ELSE "committed"
    /\ UNCHANGED <<entry, network, inputs, assigned, trace, instance_cells>>

\* NextPhase with the challenge loaded before the commit phase is closed
NextPhase_challenge_first ==
    /\ pc = "committed"
    /\ ctx' = Log([Log(Log(Log(ctx, "get_challenge", 0), "assign_phase0", 0),
                       "next_phase", Len(ctx.cells))
                      EXCEPT !.phase = 1],
                  "keccak_assign_phase1", 0)
    /\ pc' = "challenged"
    /\ UNCHANGED <<entry, network, inputs, assigned, witness, trace, instance_cells>>

\* synthesize, lines 846-851: assign_phase0, next_phase, get_challenge, keccak_assign_phase1
NextPhase ==
    /\ pc = "committed"
    /\ ctx' = Log(Log([Log(Log(ctx, "assign_phase0", 0),
                           "next_phase", Len(ctx.cells))
                          EXCEPT !.phase = 1],
                      "get_challenge", 0), "keccak_assign_phase1", 0)
    /\ pc' = "challenged"
    /\ UNCHANGED <<entry, network, inputs, assigned, witness, trace, instance_cells>>

\* synthesize, lines 853-855: chip.parse_eip1186_proofs_from_block_phase1
ChallengePhase ==
    /\ entry = "synthesize" /\ pc = "challenged"
    /\ \E r \in {parse_eip1186_proofs_from_block_phase1(ctx, witness)} :
           /\ ctx' = r.ctx
           /\ trace' = r.out
           /\ pc' = IF r.ctx.panic # "" THEN "aborted" ELSE "traced"
    /\ UNCHANGED <<entry, network, inputs, assigned, witness, instance_cells>>

\* synthesize, lines 856-878: the digest's cells are bound to instance rows 0, 1, ...
BindInstance ==
    /\ entry = "synthesize" /\ pc = "traced"
    /\ instance_cells' = digest_cells(trace.digest)
    /\ ctx' = Log(ctx, "constrain_instance", Len(instance_cells'))
    /\ pc' = "done"
    /\ UNCHANGED <<entry, network, inputs, assigned, witness, trace>>

\* the arguments of a direct chip call, loaded by the caller
ChipArgs(c, in) ==
    Bind(LoadAll(c, in.state_root), LAMBDA root :
    Bind(LoadAll(root.ctx, in.addr), LAMBDA addr :
    Bind(MPTFixedKeyInput_assign(addr.ctx, in.acct_pf), LAMBDA acct :
    IF acct.ctx.panic # "" THEN acct
    ELSE
    Bind(assign_storage_pfs(acct.ctx, [i \in 1..Len(in.storage_pfs) |->
             <<in.storage_pfs[i][1], Zeros(32), in.storage_pfs[i][2]>>]), LAMBDA pfs :
    IF pfs.ctx.panic # "" THEN pfs
    ELSE Ret(pfs.ctx, [state_root |-> root.out, addr |-> addr.out,
                       acct_pf |-> acct.out, storage_pfs |-> pfs.out])))))

\* the slot bytes of a direct chip call: the 32 bytes of each assigned slot
RECURSIVE ChipSlotBytes(_, _)
ChipSlotBytes(c, storage_pfs) ==
    IF Len(storage_pfs) = 0 THEN Ret(c, <<>>)
    ELSE
    Bind(h256_to_bytes(c, Head(storage_pfs)[1]), LAMBDA h :
    Bind(ChipSlotBytes(h.ctx, Tail(storage_pfs)), LAMBDA t :
    Ret(t.ctx, <<<<h.out, Head(storage_pfs)[2]>>>> \o t.out)))

\* a direct caller of the chip: loads the state root, the address and the bundles
ChipLoad ==
    /\ entry = "chip" /\ pc = "start"
    /\ \E r \in {ChipArgs(ctx, inputs)} :
           /\ ctx' = r.ctx
           /\ assigned' = r.out
           /\ pc' = IF r.ctx.panic # "" THEN "aborted" ELSE "assigned"
    /\ UNCHANGED <<entry, network, inputs, witness, trace, instance_cells>>

\* a direct call of parse_eip1186_proofs_phase0
ChipCommitPhase ==
    /\ entry = "chip" /\ pc = "assigned"
    /\ \E s \in {ChipSlotBytes(ctx, assigned.storage_pfs)} :
       \E r \in {parse_eip1186_proofs_phase0(s.ctx, assigned.state_root, assigned.addr,
                                             assigned.acct_pf, s.out)} :
           /\ ctx' = r.ctx
           /\ witness' = r.out
           /\ pc' = IF r.ctx.panic # "" THEN "aborted" ELSE "committed"
    /\ UNCHANGED <<entry, network, inputs, assigned, trace, instance_cells>>

\* a direct call of parse_eip1186_proofs_phase1
ChipChallengePhase ==
    /\ entry = "chip" /\ pc = "challenged"
    /\ \E r \in {parse_eip1186_proofs_phase1(ctx, witness)} :
           /\ ctx' = r.ctx
           /\ trace' = r.out
           /\ pc' = IF r.ctx.panic # "" THEN "aborted" ELSE "done"
    /\ UNCHANGED <<entry, network, inputs, assigned, witness, instance_cells>>

Next ==
    \/ FirstPass
    \/ Assign
    \/ CommitPhase
    \/ NextPhase
    \/ ChallengePhase
    \/ BindInstance
    \/ ChipLoad
    \/ ChipCommitPhase
    \/ ChipChallengePhase

Spec == Init /\ [][Next]_vars

----------------------------------------------------------------------------
(* Checking the assignment: what a verifier of the concrete proof checks *)

\* the k-th registered equality holds on the assigned values
EqHolds(k) ==
    k \in 1..Len(ctx.eqs) /\ ctx.cells[ctx.eqs[k][1]] = ctx.cells[ctx.eqs[k][2]]

\* every constrain_equal pair holds
EqsHold == \A k \in 1..Len(ctx.eqs) : EqHolds(k)

\* every sub-proof discharged in the challenge phase holds
ChecksHold == \A k \in 1..Len(ctx.checks) : ctx.checks[k].ok

\* the cells bound to the instance column hold the public instance
InstanceHolds == Val(ctx, instance_cells) = instance(inputs)

Satisfied == EqsHold /\ ChecksHold /\ InstanceHolds

\* the commit phase has returned
CommitDone == pc \in {"committed", "challenged", "traced", "done"}

----------------------------------------------------------------------------
(* What the header and the proofs of the input determine, decoded off-circuit *)

RlpEncodedLen(b) == RlpListPrefix(b).start + RlpListPrefix(b).len - 1

\* the payload of item i (from 0) of the RLP list b
RlpListItem(b, i) ==
    LET it == RlpItems(b, RlpListPrefix(b).start, i + 1)[i + 1]
    IN  SubSeq(b, it.start, it.start + it.len - 1)

\* the payload of the RLP string b
RlpStrPayload(b) ==
    LET it == RlpItemAt(b, 1) IN SubSeq(b, it.start, it.start + it.len - 1)

TheHeader == resize_block_header(inputs.block_header, network)
HeaderHash == Keccak256(SubSeq(TheHeader, 1, RlpEncodedLen(TheHeader)))
HeaderStateRoot == RlpListItem(TheHeader, 3)
HeaderNumber == BeToUint(RlpListItem(TheHeader, 8))

NumSlots ==
    IF entry = "synthesize" THEN Len(inputs.storage.storage_pfs) ELSE Len(inputs.storage_pfs)

\* the bundles in the order they are verified: the account's, then one per slot
Bundles ==
    IF entry = "synthesize"
    THEN <<inputs.storage.acct_pf>> \o [i \in 1..NumSlots |-> inputs.storage.storage_pfs[i][3]]
    ELSE <<inputs.acct_pf>> \o [i \in 1..NumSlots |-> inputs.storage_pfs[i][2]]

\* what bundle j's key must be the hash of: the address, then the slots
Preimage(j) ==
    IF entry = "synthesize"
    THEN IF j = 1 THEN inputs.storage.addr ELSE inputs.storage.storage_pfs[j - 1][1]
    ELSE IF j = 1 THEN inputs.addr ELSE inputs.storage_pfs[j - 1][1]

AccountStorageRoot == RlpListItem(Bundles[1].value_bytes, 2)

\* the value bundle 1 + i proves for slot i, as a U256
ProvenValue(i) == U256Of(RlpStrPayload(Bundles[i + 1].value_bytes))

ClaimedValue(i) == inputs.storage.storage_pfs[i][2]

KeyMismatch(j) == Keccak256(Preimage(j)) # Bundles[j].key_bytes

WrongRoot(j) ==
    Bundles[j].root_hash_bytes # (IF j = 1 THEN HeaderStateRoot ELSE AccountStorageRoot)

InvalidPath(j) == ~Bundles[j].proof.valid

\* the shape contract of the bundles: key length 32, depth within the declared bound
WellFormedShape ==
    \A j \in 1..Len(Bundles) :
        Bundles[j].key_byte_len = 32 /\ Bundles[j].proof.depth <= Bundles[j].max_depth

\* header, account proof and storage proofs chain from the declared hash to the slots
ProofsAuthentic ==
    /\ inputs.block_hash = HeaderHash
    /\ inputs.block_number = HeaderNumber
    /\ \A j \in 1..Len(Bundles) : ~KeyMismatch(j) /\ ~WrongRoot(j) /\ ~InvalidPath(j)

ValuesAuthentic == \A i \in 1..NumSlots : ClaimedValue(i) = ProvenValue(i)

DigestAuthentic == ProofsAuthentic /\ ValuesAuthentic

ValidInputs ==
    /\ entry = "synthesize"
    /\ Len(inputs.block_header) <= MaxHeaderLen(network)
    /\ WellFormedShape
    /\ DigestAuthentic

\* equalities from + 1 .. from + 32 pair xs with ys, cell by cell
EqGroup(from, xs, ys) == \A k \in 1..32 : ctx.eqs[from + k] = <<xs[k], ys[k]>>

\* the 16 big-endian bytes of each of the two cells of an H256
HiLoBytes(h256) == UintToBe(ctx.cells[h256[1]], 16) \o UintToBe(ctx.cells[h256[2]], 16)

\* the constraints the commit phase has registered, link by link
ConstraintChain ==
    /\ Len(ctx.eqs) = 96 + 64 * NumSlots
    /\ Len(ctx.var_len_queries) = 1
    /\ Len(ctx.fixed_len_queries) = 1 + NumSlots
    \* the declared hash, byte by byte, is the output of the header's hash query
    /\ Val(ctx, ctx.var_len_queries[1].input_assigned) = TheHeader
    /\ Val(ctx, ctx.var_len_queries[1].output_assigned) = HeaderHash
    /\ Val(ctx, [k \in 1..32 |-> ctx.eqs[k][1]]) = HiLoBytes(assigned.block_hash)
    /\ \A k \in 1..32 : ctx.eqs[k][2] = ctx.var_len_queries[1].output_assigned[k]
    \* the block number is header field 8
    /\ ctx.cells[witness.digest.block_number] = HeaderNumber
    \* the address is hashed, the hash is the account proof's key
    /\ witness.digest.address = assigned.storage.address
    /\ Val(ctx, ctx.fixed_len_queries[1].input_assigned)
          = UintToBe(ctx.cells[assigned.storage.address], 20)
    /\ EqGroup(32, ctx.fixed_len_queries[1].output_assigned, assigned.storage.acct_pf.key_bytes)
    \* the account proof's root is header field 3
    /\ Val(ctx, Field(witness.block_witness.rlp_witness, 3).field_cells) = HeaderStateRoot
    /\ EqGroup(64, assigned.storage.acct_pf.root_hash_bytes,
               Field(witness.block_witness.rlp_witness, 3).field_cells)
    /\ \A i \in 1..NumSlots :
          \* the slot is hashed, the hash is the storage proof's key
          /\ witness.digest.slots_values[i][1] = assigned.storage.storage_pfs[i][1]
          /\ Val(ctx, ctx.fixed_len_queries[1 + i].input_assigned)
                = HiLoBytes(assigned.storage.storage_pfs[i][1])
          /\ EqGroup(32 + 64 * i, ctx.fixed_len_queries[1 + i].output_assigned,
                     assigned.storage.storage_pfs[i][2].key_bytes)
          \* the storage proof's root is the account record's third field
          /\ EqGroup(64 + 64 * i, assigned.storage.storage_pfs[i][2].root_hash_bytes,
                     Field(witness.acct_witness.array_witness, 2).field_cells)
          \* the digest value is the proof's decoded value
          /\ Val(ctx, witness.digest.slots_values[i][2])
                = encode_u256_to_field(ProvenValue(i))

----------------------------------------------------------------------------
(* The claims *)

\* C1: synthesize binds exactly 4 + 4N cells to the instance, in the order
\* blockHash_hi, blockHash_lo, blockNumber, address, then per slot in input order
\* slot_hi, slot_lo, value_hi, value_lo; instance() lists the same components in
\* the same order and num_instance() reports the same length.
C1_InstanceOrder ==
    (entry = "synthesize" /\ pc = "done") =>
        /\ Len(instance_cells) = 4 + 4 * NumSlots
        /\ instance_cells[1] = assigned.block_hash[1]
        /\ instance_cells[2] = assigned.block_hash[2]
        /\ instance_cells[3] = trace.digest.block_number
        /\ ctx.cells[instance_cells[3]] = HeaderNumber
        /\ instance_cells[4] = assigned.storage.address
        /\ \A i \in 1..NumSlots :
              /\ instance_cells[4 * i + 1] = assigned.storage.storage_pfs[i][1][1]
              /\ instance_cells[4 * i + 2] = assigned.storage.storage_pfs[i][1][2]
              /\ instance_cells[4 * i + 3] = trace.digest.slots_values[i][2][1]
              /\ instance_cells[4 * i + 4] = trace.digest.slots_values[i][2][2]
              /\ <<ctx.cells[instance_cells[4 * i + 3]], ctx.cells[instance_cells[4 * i + 4]]>>
                    = encode_u256_to_field(ProvenValue(i))
        /\ num_instance(inputs) = <<4 + 4 * NumSlots>>
        /\ Len(instance(inputs)) = num_instance(inputs)[1]
        /\ <<instance(inputs)[1], instance(inputs)[2]>> = encode_h256_to_field(inputs.block_hash)
        /\ instance(inputs)[3] = inputs.block_number
        /\ instance(inputs)[4] = encode_addr_to_field(inputs.storage.addr)
        /\ \A i \in 1..NumSlots :
              /\ <<instance(inputs)[4 * i + 1], instance(inputs)[4 * i + 2]>>
                    = encode_h256_to_field(inputs.storage.storage_pfs[i][1])
              /\ <<instance(inputs)[4 * i + 3], instance(inputs)[4 * i + 4]>>
                    = encode_u256_to_field(ClaimedValue(i))

\* synthesize has bound the instance for an input of two slots
C1_Witness == entry = "synthesize" /\ pc = "done" /\ NumSlots = 2

\* C2: once the commit phase has returned, every component of the digest is tied
\* by registered constraints to the header and the proofs (hash bytes to the header's
\* hash query, number to field 8, address hash to the account key, account root to
\* field 3, slot hash to the storage key, storage root to the record's third field,
\* value to the decoded proof value); so an assignment that satisfies the system
\* has a digest equal to what the header and the proofs determine.
C2_DigestBacked ==
    (entry = "synthesize" /\ CommitDone) =>
        /\ ConstraintChain
        /\ (pc = "done" /\ Satisfied) => DigestAuthentic

\* a satisfied system for two slots
C2_Witness == entry = "synthesize" /\ pc = "done" /\ NumSlots = 2 /\ Satisfied

\* C3: for valid inputs with correct proofs the digest's block number is the
\* header's number field and the declared number, each (slot, value) pair of the
\* digest is the claimed pair, and the digest agrees row by row with instance().
C3_ValidInputsAgree ==
    ValidInputs =>
        /\ pc # "aborted"
        /\ pc = "done" =>
              /\ ctx.cells[trace.digest.block_number] = HeaderNumber
              /\ ctx.cells[trace.digest.block_number] = inputs.block_number
              /\ \A i \in 1..NumSlots :
                    /\ Val(ctx, trace.digest.slots_values[i][1])
                          = encode_h256_to_field(inputs.storage.storage_pfs[i][1])
                    /\ Val(ctx, trace.digest.slots_values[i][2])
                          = encode_u256_to_field(ClaimedValue(i))
              /\ Val(ctx, instance_cells) = instance(inputs)
              /\ Satisfied

\* a valid input of two slots has gone through both phases
C3_Witness == ValidInputs /\ pc = "done" /\ NumSlots = 2

\* C4: given an address that is not 20 bytes long, the account-proof verifier aborts
\* in the commit phase: the commit phase never returns, nothing is registered, the
\* challenge phase is never entered.  (synthesize always hands it 20 bytes.)
C4_AddressLengthAborts ==
    /\ (entry = "chip" /\ Len(inputs.addr) # 20) =>
          /\ pc \in {"start", "assigned", "aborted"}
          /\ ctx.phase = 0
          /\ Len(ctx.fixed_len_queries) = 0 /\ Len(ctx.eqs) = 0 /\ Len(ctx.checks) = 0
          /\ pc = "aborted" => ctx.panic # ""
    /\ entry = "synthesize" =>
          /\ ctx.panic # "assert_eq!(addr.len(), 20)"
          /\ \A k \in 1..Len(ctx.log) :
                ctx.log[k].op = "parse_account_proof_phase0" => ctx.log[k].n = 20

\* the verifier has aborted on a 19-byte address
C4_Witness ==
    /\ entry = "chip" /\ Len(inputs.addr) = 19
    /\ pc = "aborted" /\ ctx.panic = "assert_eq!(addr.len(), 20)"

\* the first bundle, in verification order, whose declared key length is not 32
FirstBadKeyLen ==
    CHOOSE j \in 1..Len(Bundles) :
        /\ Bundles[j].key_byte_len # 32
        /\ \A h \in 1..(j - 1) : Bundles[h].key_byte_len = 32

\* C5: a bundle whose declared key length is not 32 makes its verifier (account or
\* storage) abort in the commit phase before any hash query or equality for that
\* bundle is registered: the commit phase never returns, and the abort comes right
\* after the verifier is entered.
C5_KeyLengthAborts ==
    (\E j \in 1..Len(Bundles) : Bundles[j].key_byte_len # 32) =>
        LET j == FirstBadKeyLen
            root_len == IF entry = "synthesize" THEN 32 ELSE Len(inputs.state_root)
            base == IF entry = "synthesize" THEN 32
                    ELSE IF j = 1 THEN 0 ELSE Min(32, root_len) - 32
        IN  /\ ~CommitDone
            /\ ctx.phase = 0
            /\ Len(ctx.fixed_len_queries) <= j - 1
            /\ Len(ctx.eqs) <= base + 64 * (j - 1)
            /\ ctx.panic = "assert_eq!(32, proof.key_byte_len)" =>
                  /\ pc = "aborted"
                  /\ Len(ctx.fixed_len_queries) = j - 1
                  /\ Len(ctx.eqs) = base + 64 * (j - 1)
                  /\ ctx.log[Len(ctx.log)].op =
                        (IF j = 1 THEN "parse_account_proof_phase0"
                         ELSE "parse_storage_proof_phase0")

\* the storage verifier has aborted on the second slot's bundle
C5_Witness ==
    /\ entry = "synthesize"
    /\ \E j \in 1..Len(Bundles) : Bundles[j].key_byte_len # 32
    /\ FirstBadKeyLen = 3
    /\ ctx.panic = "assert_eq!(32, proof.key_byte_len)"

\* C6: a header longer than the network's maximum header length aborts witness
\* construction and never reaches the challenge round.
C6_LongHeaderAborts ==
    (entry = "synthesize" /\ Len(inputs.block_header) > MaxHeaderLen(network)) =>
        /\ ctx.phase = 0
        /\ pc \notin {"challenged", "traced", "done"}

\* a header longer than the maximum has gone through both phases and is accepted
C6_LongHeaderAccepted ==
    /\ entry = "synthesize" /\ Len(inputs.block_header) > MaxHeaderLen(network)
    /\ pc = "done" /\ ctx.panic = "" /\ Satisfied

\* C7: when Keccak256(address) is not the account proof's key, or Keccak256(slot)
\* is not a storage proof's key (shapes well-formed), the commit phase returns
\* without error with all its constraints registered, and the system is
\* unsatisfiable: an equality of that bundle's key check fails.
C7_KeyMismatchUnsatisfiable ==
    (entry = "synthesize" /\ WellFormedShape /\ \E j \in 1..Len(Bundles) : KeyMismatch(j)) =>
        /\ pc # "aborted" /\ ctx.panic = ""
        /\ CommitDone =>
              /\ Len(ctx.eqs) = 96 + 64 * NumSlots
              /\ \A j \in 1..Len(Bundles) :
                    KeyMismatch(j) => \E k \in 1..32 : ~EqHolds(32 + 64 * (j - 1) + k)
              /\ ~EqsHold
        /\ pc = "done" => ~Satisfied

\* the commit phase has returned for an input whose account key and a slot key mismatch
C7_Witness ==
    /\ entry = "synthesize" /\ WellFormedShape /\ pc = "committed"
    /\ KeyMismatch(1)
    /\ \E j \in 2..Len(Bundles) : KeyMismatch(j)

\* C8: a proof with a wrong root (account root not the header's state root, storage
\* root not the account's storage root) or an invalid trie path is never an error
\* at construction: both phases run to completion, and the system is unsatisfiable
\* (a root equality fails, or the inclusion argument fails).
C8_ForgedProofNotAnError ==
    (/\ entry = "synthesize" /\ WellFormedShape
     /\ \E j \in 1..Len(Bundles) : WrongRoot(j) \/ InvalidPath(j)) =>
        /\ pc # "aborted" /\ ctx.panic = ""
        /\ CommitDone =>
              /\ Len(ctx.eqs) = 96 + 64 * NumSlots
              /\ \A j \in 1..Len(Bundles) :
                    WrongRoot(j) => \E k \in 1..32 : ~EqHolds(64 + 64 * (j - 1) + k)
        /\ pc \in {"traced", "done"} =>
              ((\E j \in 1..Len(Bundles) : InvalidPath(j)) => ~ChecksHold)
        /\ pc = "done" => ~Satisfied

\* both phases have run for an input with a wrong root and an invalid path
C8_Witness ==
    /\ entry = "synthesize" /\ WellFormedShape /\ pc = "done"
    /\ \E j \in 1..Len(Bundles) : WrongRoot(j)
    /\ \E j \in 1..Len(Bundles) : InvalidPath(j)

\* C9: a declared block hash that is not the Keccak hash of the header does not
\* abort: the commit phase registers 32 equalities, the k-th between the k-th
\* big-endian byte of the declared hash (16 of hi, then 16 of lo) and the k-th byte
\* of the header's computed hash; construction completes; the system is unsatisfiable.
C9_HashMismatchUnsatisfiable ==
    (entry = "synthesize" /\ WellFormedShape /\ inputs.block_hash # HeaderHash) =>
        /\ pc # "aborted" /\ ctx.panic = ""
        /\ CommitDone =>
              /\ Len(ctx.eqs) >= 32
              /\ \A k \in 1..32 :
                    /\ ctx.cells[ctx.eqs[k][1]] = inputs.block_hash[k]
                    /\ ctx.cells[ctx.eqs[k][2]] = HeaderHash[k]
              /\ BeToUint([k \in 1..16 |-> ctx.cells[ctx.eqs[k][1]]])
                    = ctx.cells[assigned.block_hash[1]]
              /\ BeToUint([k \in 1..16 |-> ctx.cells[ctx.eqs[16 + k][1]]])
                    = ctx.cells[assigned.block_hash[2]]
              /\ \E k \in 1..32 : ~EqHolds(k)
        /\ pc = "done" => ~Satisfied

\* construction has completed for an input whose declared hash is not the header's
C9_Witness ==
    /\ entry = "synthesize" /\ WellFormedShape /\ inputs.block_hash # HeaderHash
    /\ pc = "done"

\* the input with every claimed value replaced by the value its proof proves
Untampered ==
    [inputs EXCEPT !.storage.storage_pfs =
        [i \in 1..NumSlots |-> <<@[i][1], ProvenValue(i), @[i][3]>>]]

\* the commit round (assignment and commit phase) run on the untampered input
UntamperedCommit ==
    Bind(EthBlockStorageInput_assign(EmptyCtx, Untampered), LAMBDA a :
    parse_eip1186_proofs_from_block_phase0(a.ctx, a.out, network))

----------------------------------------------------------------------------
(* The assigned input and the witnesses, for either entry point *)

Range(seq) == {seq[k] : k \in 1..Len(seq)}

\* the account witness returned by the account-proof verifier in this run
AcctWitness == IF entry = "synthesize" THEN witness.acct_witness ELSE witness[1]

\* the storage witnesses returned by the storage-proof verifier, in order
StorageWitnesses == IF entry = "synthesize" THEN witness.storage_witness ELSE witness[2]

\* the assigned account bundle and the assigned (slot, bundle) pairs
AssignedAcctPf == IF entry = "synthesize" THEN assigned.storage.acct_pf ELSE assigned.acct_pf
AssignedPfs == IF entry = "synthesize" THEN assigned.storage.storage_pfs ELSE assigned.storage_pfs

BundleCells(pf) == Range(pf.key_bytes) \cup Range(pf.value_bytes) \cup Range(pf.root_hash_bytes)

\* every cell that holds a part of the untrusted input
AssignedCells ==
    (IF entry = "synthesize"
     THEN Range(assigned.block_hash) \cup {assigned.storage.address}
     ELSE Range(assigned.state_root) \cup Range(assigned.addr))
    \cup BundleCells(AssignedAcctPf)
    \cup UNION {BundleCells(AssignedPfs[i][2]) \cup
                (IF entry = "synthesize" THEN Range(AssignedPfs[i][1]) ELSE {})
                    : i \in 1..Len(AssignedPfs)}

\* the cells of the account record's third field, as the account verifier decoded it
StorageRootCells == Field(AcctWitness.array_witness, 2).field_cells

\* equalities registered before the first slot's: header hash (synthesize only),
\* account key, account root (one per cell of the shorter of the two sequences)
EqBase == IF entry = "synthesize" THEN 96 ELSE 32 + Min(32, Len(inputs.state_root))

\* C11: in the chained verification, from a header or from a state root, the storage
\* root each storage-proof verifier call equates its bundle's root with is the cells
\* of field 2 of the account witness of the same run: cells created by the account
\* verifier's decomposition, none of them a cell of the input, the same for every slot.
C11_StorageRootSource ==
    CommitDone =>
        /\ Len(ctx.eqs) = EqBase + 64 * NumSlots
        /\ Len(StorageRootCells) = 33
        /\ Range(StorageRootCells) \cap AssignedCells = {}
        /\ \A i \in 1..NumSlots : \A k \in 1..32 :
              ctx.eqs[EqBase + 64 * (i - 1) + 32 + k]
                  = <<AssignedPfs[i][2].root_hash_bytes[k], StorageRootCells[k]>>

\* a direct call of the chip has verified two slots
C11_Witness == entry = "chip" /\ pc = "committed" /\ NumSlots = 2

C14_RoundTrip ==
    (entry = "synthesize" /\ pc \in {"traced", "done"}) =>
        LET d == trace.digest
            acct == AcctWitness.array_witness
            Hidden == UNION {Range(Field(acct, f).field_cells) : f \in {0, 1, 3}}
        IN  /\ UintToBe(ctx.cells[d.address], 20) = inputs.storage.addr
            /\ HiLoBytes(d.block_hash) = inputs.block_hash
            /\ Len(d.slots_values) = NumSlots
            /\ \A i \in 1..NumSlots :
                  HiLoBytes(d.slots_values[i][1]) = inputs.storage.storage_pfs[i][1]
            /\ Len(ctx.fixed_len_queries) = 1 + NumSlots
            /\ Val(ctx, ctx.fixed_len_queries[1].input_assigned) = inputs.storage.addr
            /\ \A i \in 1..NumSlots :
                  Val(ctx, ctx.fixed_len_queries[1 + i].input_assigned)
                      = inputs.storage.storage_pfs[i][1]
            /\ Len(ctx.eqs) >= 32
            /\ Val(ctx, [k \in 1..32 |-> ctx.eqs[k][1]]) = inputs.block_hash
            /\ Cardinality(Hidden) > 32
            /\ Hidden \cap Range(digest_cells(d)) = {}
            /\ pc = "done" => Hidden \cap Range(instance_cells) = {}

\* a whole pass with two slots, the digest bound to the instance
C14_Witness ==
    /\ entry = "synthesize" /\ pc = "done" /\ NumSlots = 2
    /\ Len(instance_cells) = 12

\* C16: with no requested slot the storage-proof verifier runs in neither phase,
\* the header and the account are verified all the same in both phases, and the
\* digest is exactly (blockHash_hi, blockHash_lo, blockNumber, address): 4 cells,
\* bound to 4 instance rows.
C16_ZeroSlots ==
    NumSlots = 0 =>
        LET Ran(op) == \E k \in 1..Len(ctx.log) : ctx.log[k].op = op
        IN  /\ ~Ran("parse_storage_proof_phase0") /\ ~Ran("parse_storage_proof_phase1")
            /\ CommitDone =>
                  /\ Ran("parse_account_proof_phase0")
                  /\ Ran("parse_mpt_inclusion_fixed_key_phase0")
                  /\ StorageWitnesses = <<>>
                  /\ Len(ctx.fixed_len_queries) = 1
            /\ pc = "done" =>
                  /\ Ran("parse_account_proof_phase1")
                  /\ Ran("parse_mpt_inclusion_fixed_key_phase1")
                  /\ Len(ctx.checks) >= 1
            /\ entry = "synthesize" =>
                  /\ num_instance(inputs) = <<4>>
                  /\ Len(instance(inputs)) = 4
                  /\ CommitDone =>
                        /\ Ran("decompose_block_header_phase0")
                        /\ witness.digest.slots_values = <<>>
                        /\ Len(digest_cells(witness.digest)) = 4
                  /\ pc = "done" =>
                        /\ Ran("decompose_block_header_phase1")
                        /\ trace.storage_trace = <<>>
                        /\ instance_cells = trace.digest.block_hash
                              \o <<trace.digest.block_number, trace.digest.address>>
                        /\ Len(instance_cells) = 4

\* a whole pass with no slot
C16_Witness == entry = "synthesize" /\ pc = "done" /\ NumSlots = 0 /\ Satisfied

\* C17: a bundle whose path is exactly max_depth deep is assigned and its inclusion
\* check does not fail on depth; a bundle one deeper than its max_depth aborts the
\* run during input assignment, before any verifier has run; and each verifier
\* hands the trie prover the max_depth its own bundle declares.
C17_DepthBound ==
    LET Deep(j) == Bundles[j].proof.depth > Bundles[j].max_depth
        AtMax(j) == Bundles[j].proof.depth = Bundles[j].max_depth
        Ops == {ctx.log[k].op : k \in 1..Len(ctx.log)}
        Depths == [j \in 1..(1 + NumSlots) |->
                      IF j = 1 THEN AcctWitness.mpt_witness.max_depth
                      ELSE StorageWitnesses[j - 1].mpt_witness.max_depth]
    IN  /\ \A j \in 1..(1 + NumSlots) : Deep(j) \/ AtMax(j)
        /\ (\E j \in 1..(1 + NumSlots) : Deep(j)) =>
              /\ pc \in {"start", "second_pass", "aborted"}
              /\ Ops \subseteq {"MPTFixedKeyInput::assign"}
              /\ ctx.eqs = <<>> /\ ctx.checks = <<>>
              /\ pc = "aborted" =>
                    /\ ctx.panic = "mpt: depth <= max_depth"
                    /\ \E j \in 1..(1 + NumSlots) :
                          /\ Deep(j)
                          /\ \A h \in 1..(j - 1) : AtMax(h)
                          /\ Cardinality({k \in 1..Len(ctx.log) :
                                 ctx.log[k].op = "MPTFixedKeyInput::assign"}) = j - 1
        /\ (\A j \in 1..(1 + NumSlots) : AtMax(j)) =>
              /\ ctx.panic # "mpt: depth <= max_depth"
              /\ pc = "done" =>
                    /\ Cardinality({k \in 1..Len(ctx.checks) :
                           ctx.checks[k].kind = "mpt"}) = 1 + NumSlots
                    /\ \A k \in 1..Len(ctx.checks) : ctx.checks[k].kind = "mpt" =>
                           \E j \in 1..(1 + NumSlots) :
                               ctx.checks[k].ok = Bundles[j].proof.valid
                    /\ ValidInputs => Satisfied
        /\ CommitDone =>
              /\ Len(StorageWitnesses) = NumSlots
              /\ \A j \in 1..(1 + NumSlots) :
                    /\ Depths[j] = Bundles[j].max_depth
                    /\ \A h \in 1..(1 + NumSlots) : h # j => Depths[h] # Depths[j]

\* the second slot's bundle is one too deep: the account's and the first slot's
\* bundles, at their maximum, were assigned and the run stopped at the third
C17_Witness ==
    /\ entry = "synthesize" /\ pc = "aborted" /\ NumSlots = 2
    /\ Bundles[3].proof.depth = Bundles[3].max_depth + 1
    /\ Bundles[1].proof.depth = Bundles[1].max_depth
    /\ Bundles[2].proof.depth = Bundles[2].max_depth

\* the input with the requested slots in reverse order
ReversedSlots ==
    [inputs EXCEPT !.storage.storage_pfs =
        [i \in 1..Len(@) |-> @[Len(@) + 1 - i]]]

\* C18: the storage-proof verifier runs once per requested slot in the commit
\* phase and once per storage witness in the challenge-response phase.  The slots
\* are independent: the hash query and the 64 equalities of slot i involve slot
\* i's bytes, slot i's bundle and the shared storage root only, and assigning and
\* committing the input with the slots permuted yields, at the permuted position,
\* the same values in slot i's hash query, equalities and digest pair.
C18_OncePerSlot ==
    LET Count(op) == Cardinality({k \in 1..Len(ctx.log) : ctx.log[k].op = op})
        EqVals(c, p) == [k \in 1..64 |-> <<c.cells[c.eqs[96 + 64 * (p - 1) + k][1]],
                                           c.cells[c.eqs[96 + 64 * (p - 1) + k][2]]>>]
        PairVals(c, d, p) == Val(c, d.slots_values[p][1] \o d.slots_values[p][2])
        N == NumSlots
    IN  /\ Count("parse_storage_proof_phase0")
              = IF CommitDone THEN N
                ELSE IF pc = "aborted"
                     THEN Min(N, Count("parse_storage_proof_phase0"))
                     ELSE 0
        /\ Count("parse_storage_proof_phase1")
              = IF pc \in {"traced", "done"} THEN N
                ELSE IF pc = "aborted"
                     THEN Min(N, Count("parse_storage_proof_phase1"))
                     ELSE 0
        /\ CommitDone =>
              /\ Len(StorageWitnesses) = N
              /\ Len(ctx.eqs) = EqBase + 64 * N
              /\ Len(ctx.fixed_len_queries) = 1 + N
              /\ \A i \in 1..N :
                    /\ Val(ctx, ctx.fixed_len_queries[1 + i].input_assigned) = Preimage(1 + i)
                    /\ \A k \in 1..32 :
                          /\ ctx.eqs[EqBase + 64 * (i - 1) + k]
                                = <<ctx.fixed_len_queries[1 + i].output_assigned[k],
                                    AssignedPfs[i][2].key_bytes[k]>>
                          /\ ctx.eqs[EqBase + 64 * (i - 1) + 32 + k]
                                = <<AssignedPfs[i][2].root_hash_bytes[k], StorageRootCells[k]>>
        /\ (entry = "synthesize" /\ pc = "committed") =>
              \E a \in {EthBlockStorageInput_assign(EmptyCtx, ReversedSlots)} :
              \E r \in {parse_eip1186_proofs_from_block_phase0(a.ctx, a.out, network)} :
                  /\ r.ctx.panic = ""
                  /\ Len(r.ctx.eqs) = Len(ctx.eqs)
                  /\ Len(r.ctx.fixed_len_queries) = 1 + N
                  /\ Len(r.out.digest.slots_values) = N
                  /\ Len(witness.digest.slots_values) = N
                  /\ \A i \in 1..N :
                        /\ PairVals(r.ctx, r.out.digest, N + 1 - i)
                              = PairVals(ctx, witness.digest, i)
                        /\ EqVals(r.ctx, N + 1 - i) = EqVals(ctx, i)
                        /\ Val(r.ctx, r.ctx.fixed_len_queries[2 + N - i].input_assigned)
                              = Val(ctx, ctx.fixed_len_queries[1 + i].input_assigned)
                        /\ PairVals(ctx, witness.digest, i)
                              = encode_h256_to_field(inputs.storage.storage_pfs[i][1])
                                    \o encode_u256_to_field(ProvenValue(i))

\* the commit phase has run for two slots whose digest pairs differ
C18_Witness ==
    /\ entry = "synthesize" /\ pc = "committed" /\ NumSlots = 2
    /\ Val(ctx, witness.digest.slots_values[1][2]) # Val(ctx, witness.digest.slots_values[2][2])

\* C19: input assignment only stages witness cells.  When it returns, the cells
\* are, in order and each loaded once, the two halves of the block hash, the
\* address, the account bundle's key, value and root bytes and, per slot, the two
\* halves of the slot and its bundle's bytes; the bundles went through the
\* trie-proof assigner; no equality, hash query or check is registered; and no
\* cell holds a claimed slot value.
C19_AssignStagesOnly ==
    (entry = "synthesize" /\ pc = "assigned") =>
        LET N == NumSlots
            a == assigned.storage
            in == inputs.storage
            Piece(p) ==
                IF p = 1 THEN assigned.block_hash
                ELSE IF p = 2 THEN <<a.address>>
                ELSE IF p = 3 THEN a.acct_pf.key_bytes
                ELSE IF p = 4 THEN a.acct_pf.value_bytes
                ELSE IF p = 5 THEN a.acct_pf.root_hash_bytes
                ELSE IF p % 4 = 2 THEN a.storage_pfs[(p - 2) \div 4][1]
                ELSE IF p % 4 = 3 THEN a.storage_pfs[(p - 3) \div 4][2].key_bytes
                ELSE IF p % 4 = 0 THEN a.storage_pfs[(p - 4) \div 4][2].value_bytes
                ELSE a.storage_pfs[(p - 5) \div 4][2].root_hash_bytes
            Staged(p) ==
                IF p = 1 THEN encode_h256_to_field(inputs.block_hash)
                ELSE IF p = 2 THEN <<encode_addr_to_field(in.addr)>>
                ELSE IF p = 3 THEN in.acct_pf.key_bytes
                ELSE IF p = 4 THEN in.acct_pf.value_bytes
                ELSE IF p = 5 THEN in.acct_pf.root_hash_bytes
                ELSE IF p % 4 = 2 THEN encode_h256_to_field(in.storage_pfs[(p - 2) \div 4][1])
                ELSE IF p % 4 = 3 THEN in.storage_pfs[(p - 3) \div 4][3].key_bytes
                ELSE IF p % 4 = 0 THEN in.storage_pfs[(p - 4) \div 4][3].value_bytes
                ELSE in.storage_pfs[(p - 5) \div 4][3].root_hash_bytes
        IN  /\ ctx.eqs = <<>>
            /\ ctx.fixed_len_queries = <<>> /\ ctx.var_len_queries = <<>>
            /\ ctx.checks = <<>>
            /\ ctx.panic = "" /\ ctx.phase = 0
            /\ Len(ctx.log) = 1 + N
            /\ \A k \in 1..Len(ctx.log) : ctx.log[k].op = "MPTFixedKeyInput::assign"
            /\ Len(a.storage_pfs) = N
            /\ \A i \in 1..N : Len(a.storage_pfs[i]) = 2
            /\ \A p \in 1..(5 + 4 * N) :
                  /\ Len(Piece(p)) = Len(Staged(p))
                  /\ Len(Piece(p)) > 0
                  /\ Piece(p) = NewCells(Piece(p)[1] - 1, Len(Piece(p)))
                  /\ Piece(p)[1] = IF p = 1 THEN 1
                                   ELSE Piece(p - 1)[Len(Piece(p - 1))] + 1
                  /\ Piece(p)[Len(Piece(p))] <= Len(ctx.cells)
                  /\ Val(ctx, Piece(p)) = Staged(p)
            /\ Piece(5 + 4 * N)[Len(Piece(5 + 4 * N))] = Len(ctx.cells)

\* assignment has returned for two slots, one of them with a claimed value that
\* differs from the proven one
C19_Witness ==
    /\ entry = "synthesize" /\ pc = "assigned" /\ NumSlots = 2
    /\ \E i \in 1..2 : ClaimedValue(i) # ProvenValue(i)

\* C20: the digest is complete when the commit phase returns and the
\* challenge-response phase hands it on untouched: the digest of the trace is the
\* digest of the witness, the same cells in the same order, it has all of its
\* 4 + 4N cells, and every one of them was assigned before the phase transition.
C20_DigestUnchanged ==
    (entry = "synthesize" /\ pc \in {"traced", "done"}) =>
        /\ trace.digest = witness.digest
        /\ digest_cells(trace.digest) = digest_cells(witness.digest)
        /\ Len(digest_cells(witness.digest)) = 4 + 4 * NumSlots
        /\ trace.digest.block_hash = assigned.block_hash
        /\ trace.digest.address = assigned.storage.address
        /\ \A k \in 1..Len(ctx.log) :
              ctx.log[k].op = "next_phase" =>
                  \A x \in Range(digest_cells(trace.digest)) : x <= ctx.log[k].n
        /\ pc = "done" => instance_cells = digest_cells(witness.digest)

\* the challenge-response phase has returned a trace for two slots
C20_Witness ==
    /\ entry = "synthesize" /\ pc = "traced" /\ NumSlots = 2
    /\ Len(trace.storage_trace) = 2

\* C21: the digest's block number is header field 8 left-padded, by its decoded
\* length, to 4 bytes and read as an unsigned big-endian integer: for a header
\* whose number field is at most 4 bytes long the 4 padded cells are zeros followed
\* by the field's bytes, and the number cell holds the header's number, which is
\* the integer of those 4 bytes and so below 2^32.
C21_BlockNumber ==
    (entry = "synthesize" /\ CommitDone) =>
        LET f == Field(witness.block_witness.rlp_witness, 8)
            len == ctx.cells[f.field_len]
            payload == RlpListItem(TheHeader, 8)
            n == witness.digest.block_number
        IN  (Len(payload) <= 4) =>
                /\ len = Len(payload)
                /\ SubSeq(Val(ctx, f.field_cells), 1, len) = payload
                /\ n > 4
                /\ Val(ctx, NewCells(n - 5, 4)) = Zeros(4 - len) \o payload
                /\ ctx.cells[n] = BeToUint(payload)
                /\ \A k \in 1..4 : Val(ctx, NewCells(n - 5, 4))[k] \in 0..255
                /\ ctx.cells[n] =
                      ((Val(ctx, NewCells(n - 5, 4))[1] * 256
                        + Val(ctx, NewCells(n - 5, 4))[2]) * 256
                        + Val(ctx, NewCells(n - 5, 4))[3]) * 256
                        + Val(ctx, NewCells(n - 5, 4))[4]

\* the commit phase has returned for a header whose number field is 3 bytes long
C21_Witness ==
    /\ entry = "synthesize" /\ pc = "committed"
    /\ Len(RlpListItem(TheHeader, 8)) = 3
    /\ ctx.cells[witness.digest.block_number] > 65535

\* C22: for each slot the digest value is the decoded proof value, at most 32
\* bytes long, padded on the left with zeros to 32 bytes and split into the halves
\* (hi, lo), each the big-endian integer of 16 bytes, so that the 16 + 16 bytes of
\* (hi, lo) are the 32 bytes of the value as an unsigned integer; this is the
\* encoding instance() applies to the claimed U256.
C22_SlotValueHiLo ==
    (entry = "synthesize" /\ CommitDone) =>
        /\ Len(witness.digest.slots_values) = NumSlots
        /\ Len(witness.storage_witness) = NumSlots
        /\ \A i \in 1..NumSlots :
              LET w == witness.storage_witness[i].value_witness.witness
                  len == ctx.cells[w.field_len]
                  payload == RlpStrPayload(Bundles[i + 1].value_bytes)
                  hi == witness.digest.slots_values[i][2][1]
                  lo == witness.digest.slots_values[i][2][2]
                  padded == Val(ctx, NewCells(hi - 33, 32))
              IN  /\ len = Len(payload) /\ len <= 32
                  /\ lo = hi + 1 /\ hi > 32
                  /\ padded = Zeros(32 - len) \o payload
                  /\ ctx.cells[hi] = BeToUint(SubSeq(padded, 1, 16))
                  /\ ctx.cells[lo] = BeToUint(SubSeq(padded, 17, 32))
                  /\ HiLoBytes(<<hi, lo>>) = U256Of(payload)
                  /\ <<ctx.cells[hi], ctx.cells[lo]>> = encode_u256_to_field(ProvenValue(i))
                  /\ ClaimedValue(i) = ProvenValue(i) =>
                        <<ctx.cells[hi], ctx.cells[lo]>>
                            = SubSeq(instance_slots(inputs.storage.storage_pfs), 4 * i - 1, 4 * i)

\* the commit phase has returned for two slots: one value of 3 bytes, one of 18
\* bytes whose high half is not zero
C22_Witness ==
    /\ entry = "synthesize" /\ pc = "committed" /\ NumSlots = 2
    /\ ctx.cells[witness.digest.slots_values[1][2][1]] = 0
    /\ ctx.cells[witness.digest.slots_values[2][2][1]] > 0
    /\ ctx.cells[witness.digest.slots_values[2][2][2]] > 0

\* C23: the header is resized to exactly the maximum header length of the selected
\* network (the Goerli constant for Goerli, the Mainnet constant for Mainnet) before
\* it is decoded: the bytes handed to the header decoder have that length, and for
\* a header no longer than the maximum they are the header followed by zero bytes;
\* the state root is then header field 3 and the block number header field 8.
C23_HeaderResized ==
    (entry = "synthesize" /\ CommitDone) =>
        LET max == IF network = "Goerli" THEN GOERLI_BLOCK_HEADER_RLP_MAX_BYTES
                   ELSE MAINNET_BLOCK_HEADER_RLP_MAX_BYTES
            header == inputs.block_header
            decoded == ctx.var_len_queries[1].input_assigned
            rlp == witness.block_witness.rlp_witness
        IN  /\ network \in {"Goerli", "Mainnet"}
            /\ Len(ctx.var_len_queries) = 1
            /\ Len(decoded) = max
            /\ \A k \in 1..Len(ctx.log) :
                  ctx.log[k].op = "decompose_block_header_phase0" => ctx.log[k].n = max
            /\ Len(header) <= max => Val(ctx, decoded) = header \o Zeros(max - Len(header))
            /\ Len(header) > max => Val(ctx, decoded) = SubSeq(header, 1, max)
            /\ Val(ctx, Field(rlp, 3).field_cells) = RlpListItem(header, 3)
            /\ \A k \in 1..32 : ctx.eqs[64 + k][2] = Field(rlp, 3).field_cells[k]
            /\ SubSeq(Val(ctx, Field(rlp, 8).field_cells), 1, ctx.cells[Field(rlp, 8).field_len])
                  = RlpListItem(header, 8)
            /\ ctx.cells[witness.digest.block_number] = BeToUint(RlpListItem(header, 8))

\* the commit phase has returned on Goerli for a header shorter than the maximum
C23_Witness ==
    /\ entry = "synthesize" /\ pc = "committed" /\ network = "Goerli"
    /\ Len(inputs.block_header) < GOERLI_BLOCK_HEADER_RLP_MAX_BYTES
    /\ Len(ctx.var_len_queries[1].input_assigned) = GOERLI_BLOCK_HEADER_RLP_MAX_BYTES

\* C24: both phases run their operations in one fixed order.  Commit: the header is
\* decomposed, the header-hash equality is registered, the block number is derived,
\* the account verifier runs and returns, then the storage verifier runs for each
\* slot in input order.  Challenge-response: the header trace, then the account's
\* obligations, then the storage obligations in the same slot order.  A run that
\* stops early has done a prefix of that order.
C24_FixedOrder ==
    entry = "synthesize" =>
        LET N == NumSlots
            Steps0 == {"decompose_block_header_phase0", "constrain_equal",
                       "bytes_be_var_to_fixed", "parse_account_proof_phase0",
                       "parse_mpt_inclusion_fixed_key_phase0", "parse_storage_proof_phase0"}
            Steps1 == {"decompose_block_header_phase1", "parse_account_proof_phase1",
                       "parse_mpt_inclusion_fixed_key_phase1", "parse_storage_proof_phase1"}
            In0(e) == e.op \in Steps0
            In1(e) == e.op \in Steps1
            done0 == SelectSeq(ctx.log, In0)
            done1 == SelectSeq(ctx.log, In1)
            Head0 == <<"decompose_block_header_phase0", "constrain_equal",
                       "bytes_be_var_to_fixed", "parse_account_proof_phase0",
                       "constrain_equal", "constrain_equal",
                       "parse_mpt_inclusion_fixed_key_phase0">>
            Slot0 == <<"parse_storage_proof_phase0", "constrain_equal", "constrain_equal",
                       "parse_mpt_inclusion_fixed_key_phase0", "bytes_be_var_to_fixed">>
            Order0 == [k \in 1..(7 + 5 * N) |->
                          IF k <= 7 THEN Head0[k] ELSE Slot0[((k - 8) % 5) + 1]]
            Order1 == [k \in 1..(3 + 2 * N) |->
                          IF k = 1 THEN "decompose_block_header_phase1"
                          ELSE IF k = 2 THEN "parse_account_proof_phase1"
                          ELSE IF k % 2 = 0 THEN "parse_storage_proof_phase1"
                          ELSE "parse_mpt_inclusion_fixed_key_phase1"]
        IN  /\ Len(done0) <= 7 + 5 * N
            /\ \A k \in 1..Len(done0) : done0[k].op = Order0[k]
            /\ Len(done1) <= 3 + 2 * N
            /\ \A k \in 1..Len(done1) : done1[k].op = Order1[k]
            /\ CommitDone =>
                  /\ Len(done0) = 7 + 5 * N
                  \* the trie prover is called for the account, then for slots 1, 2, ...
                  /\ done0[7].n = Bundles[1].max_depth
                  /\ \A i \in 1..N : done0[6 + 5 * i].n = Bundles[1 + i].max_depth
            /\ pc \in {"traced", "done"} =>
                  /\ Len(done1) = 3 + 2 * N
                  /\ done1[3].n = Bundles[1].max_depth
                  /\ \A i \in 1..N : done1[3 + 2 * i].n = Bundles[1 + i].max_depth
            /\ Len(done1) > 0 => Len(done0) = 7 + 5 * N

\* both phases have run for two slots
C24_Witness ==
    /\ entry = "synthesize" /\ pc = "traced" /\ NumSlots = 2
    /\ Len(ctx.checks) >= 3

\* C25: the order of the requested slots is kept through every stage.  For every i
\* the i-th assigned pair holds the i-th input slot and bundle, the i-th storage
\* witness was built from the i-th assigned bundle, the i-th digest pair starts
\* with the very cells loaded for the i-th input slot, and the i-th storage trace
\* carries the value cells of the i-th storage witness.
C25_SlotOrderStable ==
    (entry = "synthesize" /\ CommitDone) =>
        /\ Len(assigned.storage.storage_pfs) = NumSlots
        /\ Len(witness.storage_witness) = NumSlots
        /\ Len(witness.digest.slots_values) = NumSlots
        /\ \A i \in 1..NumSlots :
              LET a == assigned.storage.storage_pfs[i]
                  w == witness.storage_witness[i]
                  d == witness.digest.slots_values[i]
              IN  /\ Val(ctx, a[1]) = encode_h256_to_field(inputs.storage.storage_pfs[i][1])
                  /\ Val(ctx, a[2].key_bytes) = inputs.storage.storage_pfs[i][3].key_bytes
                  /\ a[2].max_depth = inputs.storage.storage_pfs[i][3].max_depth
                  /\ w.mpt_witness.proof = a[2]
                  /\ w.value_witness.rlp_field = a[2].value_bytes
                  /\ d[1] = a[1]
                  /\ \A h \in 1..NumSlots : h # i =>
                        /\ witness.digest.slots_values[h][1] # a[1]
                        /\ witness.storage_witness[h].mpt_witness.proof # a[2]
                  /\ pc \in {"traced", "done"} =>
                        /\ Len(trace.storage_trace) = NumSlots
                        /\ trace.storage_trace[i].value_bytes
                              = w.value_witness.witness.field_cells
                        /\ trace.digest.slots_values[i][1] = a[1]

\* a trace for two slots
C25_Witness ==
    /\ entry = "synthesize" /\ pc = "done" /\ NumSlots = 2
    /\ trace.storage_trace[1] # trace.storage_trace[2]

\* C26: every verifier call equates its proof key with the output of the hash
\* query that same call registered.  The j-th call (the account's, then the slots')
\* registers the j-th fixed-length query, on its own address or slot; the cells on
\* the hash side of its key equalities are that query's output cells, which hold
\* the hash of its own input and belong to no other query; and the header's hash
\* equalities use the output of the header's own variable-length query.
C26_OwnHashQuery ==
    CommitDone =>
        /\ Len(ctx.fixed_len_queries) = 1 + NumSlots
        /\ Len(ctx.eqs) = EqBase + 64 * NumSlots
        /\ \A j \in 1..(1 + NumSlots) :
              LET q == ctx.fixed_len_queries[j]
                  from == IF j > 1 THEN EqBase + 64 * (j - 2)
                          ELSE IF entry = "synthesize" THEN 32 ELSE 0
              IN  /\ Val(ctx, q.input_assigned) = Preimage(j)
                  /\ Val(ctx, q.output_assigned) = Keccak256(Preimage(j))
                  /\ Len(q.output_assigned) = 32
                  /\ \A k \in 1..32 : ctx.eqs[from + k][1] = q.output_assigned[k]
                  /\ \A h \in 1..(1 + NumSlots) : h # j =>
                        Range(ctx.fixed_len_queries[h].output_assigned)
                            \cap Range(q.output_assigned) = {}
        /\ entry = "synthesize" =>
              /\ Len(ctx.var_len_queries) = 1
              /\ witness.block_witness.block_hash_query_idx = 1
              /\ \A k \in 1..32 : ctx.eqs[k][2] = ctx.var_len_queries[1].output_assigned[k]
              /\ \A j \in 1..(1 + NumSlots) :
                    Range(ctx.fixed_len_queries[j].output_assigned)
                        \cap Range(ctx.var_len_queries[1].output_assigned) = {}

\* three verifier calls share one registry: the account's and two slots'
C26_Witness ==
    /\ entry = "chip" /\ pc = "committed" /\ NumSlots = 2
    /\ Len(ctx.fixed_len_queries) = 3

\* C27: the commit phase of each verifier registers 32 key equalities (hash output
\* byte j with proof key byte j) and 32 root equalities (proof root byte j with
\* supplied root byte j), whatever the lengths of the sequences it is handed: every
\* equality loop registers 32 pairs, and every key cell and every root cell of
\* every bundle is constrained.
C27_AllPositionsConstrained ==
    CommitDone =>
        LET Left == {ctx.eqs[e][1] : e \in 1..Len(ctx.eqs)}
            Right == {ctx.eqs[e][2] : e \in 1..Len(ctx.eqs)}
        IN  /\ \A k \in 1..Len(ctx.log) :
                  ctx.log[k].op = "constrain_equal" => ctx.log[k].n = 32
            /\ Len(AssignedAcctPf.key_bytes) = 32 /\ Len(AssignedAcctPf.root_hash_bytes) = 32
            /\ Range(AssignedAcctPf.key_bytes) \subseteq Right
            /\ Range(AssignedAcctPf.root_hash_bytes) \subseteq Left
            /\ \A i \in 1..NumSlots :
                  /\ Range(AssignedPfs[i][2].key_bytes) \subseteq Right
                  /\ Range(AssignedPfs[i][2].root_hash_bytes) \subseteq Left

\* a direct call of the chip with a state root of 31 cells has gone through both
\* phases without error; 31 root equalities were registered for the account, the
\* last cell of the account proof's root is in no equality, and every registered
\* equality and every check holds
C27_ShortRootAccepted ==
    /\ entry = "chip" /\ pc = "done" /\ ctx.panic = ""
    /\ Len(assigned.state_root) = 31
    /\ Len(ctx.eqs) = 63 + 64 * NumSlots
    /\ \A e \in 1..Len(ctx.eqs) : ctx.eqs[e][1] # assigned.acct_pf.root_hash_bytes[32]
    /\ EqsHold /\ ChecksHold

\* C28: once the commit phase has returned there are as many storage witnesses as
\* digest pairs as requested slots; once the challenge-response phase has returned
\* there are as many storage traces, the account trace has exactly the four fields
\* nonce, balance, storage root, code hash, taken in that order from the account
\* record, and the value bytes of every storage trace are 32 cells.
C28_Shapes ==
    CommitDone =>
        /\ Len(StorageWitnesses) = NumSlots
        /\ Len(AssignedPfs) = NumSlots
        /\ entry = "synthesize" => Len(witness.digest.slots_values) = NumSlots
        /\ pc \in {"traced", "done"} =>
              LET acct == IF entry = "synthesize" THEN trace.acct_trace ELSE trace[1]
                  storage == IF entry = "synthesize" THEN trace.storage_trace ELSE trace[2]
                  record == Bundles[1].value_bytes
                  Decoded(t) == SubSeq(Val(ctx, t.values), 1, ctx.cells[t.len])
              IN  /\ Len(storage) = NumSlots
                  /\ DOMAIN acct = {"nonce_trace", "balance_trace",
                                    "storage_root_trace", "code_hash_trace"}
                  /\ <<Len(acct.nonce_trace.values), Len(acct.balance_trace.values),
                       Len(acct.storage_root_trace.values), Len(acct.code_hash_trace.values)>>
                        = <<33, 13, 33, 33>>
                  /\ Decoded(acct.nonce_trace) = RlpListItem(record, 0)
                  /\ Decoded(acct.balance_trace) = RlpListItem(record, 1)
                  /\ Decoded(acct.storage_root_trace) = RlpListItem(record, 2)
                  /\ Decoded(acct.code_hash_trace) = RlpListItem(record, 3)
                  /\ acct.storage_root_trace.values = StorageRootCells
                  /\ \A i \in 1..NumSlots :
                        /\ DOMAIN storage[i] = {"value_bytes"}
                        /\ Len(storage[i].value_bytes) = 32

\* a direct call of the chip has returned its traces for two slots
C28_Witness ==
    /\ entry = "chip" /\ pc = "done" /\ NumSlots = 2
    /\ Len(trace[2]) = 2

====
